---------------------------- MODULE Spec2Model ----------------------------
(***************************************************************************)
(* A model of HwpController (src/nova-ai/hwp_controller.py): the typing    *)
(* context that every insertion call reads and mutates and the commands    *)
(* the calls send to the automation object.                                *)
(*                                                                         *)
(* A handler is an operator from (session, typing context, arguments,      *)
(* transport behaviour during the call) to an outcome: the context it      *)
(* leaves, how it ended and the commands it sent.  A call action applies   *)
(* one handler to the current context and stores the outcome in `last`;    *)
(* Return hands control back to the caller, who may then issue the next    *)
(* call.                                                                   *)
(***************************************************************************)
EXTENDS Integers, Sequences, FiniteSets, TLC

VARIABLES
    hwp,    \* self._hwp: FALSE is None, TRUE is a live automation object
    ctx,    \* the typing context: the boolean fields set in __init__
    doc,    \* the document as the placeholder locator sees it, and the cursor
    fg,     \* the window that has the foreground of the desktop, by its title
    last,   \* the call that has just ended and what it did (NoCall when idle)
    hist,   \* history of the calls made so far (read by the properties only)
    th      \* the insert_text calls two threads have in progress, step by step

vars == <<hwp, ctx, doc, fg, last, hist, th>>

----------------------------------------------------------------------------
(* Characters and strings.  A string is a sequence of one-character        *)
(* strings.                                                                 *)

SP == " "
TAB == "\t"

\* the longest argument string of insert_text
MaxLen == 2

Chars == {" ", "\t", "/", "\\", "t"}

Texts == UNION { [1..n -> Chars] : n \in 0..MaxLen }

\* equation markup: only its leading tabs matter to the controller
EqTexts == { <<>>, <<"x">>, <<"\t", "x">>, <<"\t", "\t", "x">> }

StartsWith(s, p) == Len(s) >= Len(p) /\ SubSeq(s, 1, Len(p)) = p

StartsWithLetter(s) == Len(s) >= 1 /\ s[1] \notin {" ", "\t", "/", "\\"}

\* str.lstrip(chars)
RECURSIVE LStripOf(_, _)
LStripOf(s, chars) ==
    IF Len(s) >= 1 /\ s[1] \in chars THEN LStripOf(Tail(s), chars) ELSE s

\* str.rstrip(chars)
RECURSIVE RStripOf(_, _)
RStripOf(s, chars) ==
    IF Len(s) >= 1 /\ s[Len(s)] \in chars
    THEN RStripOf(SubSeq(s, 1, Len(s) - 1), chars) ELSE s

\* str.strip(): white space off both ends
Strip(s) == RStripOf(LStripOf(s, {SP, TAB}), {SP, TAB})

\* " " * n
Spaces(n) == [i \in 1..n |-> SP]

\* insert_text, lines 507-508: an escaped tab prefix becomes a literal tab
NormalizeTab(text) ==
    IF StartsWith(text, <<"\\", "t">>) \/ StartsWith(text, <<"/", "t">>)
    THEN <<TAB>> \o SubSeq(text, 3, Len(text))
    ELSE text

----------------------------------------------------------------------------
(* The typing context.                                                      *)

InitCtx ==
    [ in_condition_box        |-> FALSE,
      box_line_start          |-> FALSE,
      line_start              |-> TRUE,
      first_line_written      |-> FALSE,
      align_right_next_line   |-> FALSE,
      line_right_aligned      |-> FALSE,
      align_justify_next_line |-> FALSE,
      line_justify_aligned    |-> FALSE,
      line_center_aligned     |-> FALSE,
      last_was_equation       |-> FALSE,
      underline_active        |-> FALSE,
      bold_active             |-> FALSE ]

----------------------------------------------------------------------------
(* Transport behaviour during one call.  Each field says how one class of   *)
(* calls on the automation object behaves while the handler runs.           *)
(*   align  : the strategy of the paragraph-align cascade that works        *)
(*            (1 HAction.Run, 2 hwp.Run, 0 neither)                         *)
(*   brk    : HAction.Run("BreakPara") works                                *)
(*   ins    : "bulk" the InsertText action works, "keys" only KeyIndicator  *)
(*            works, "fail" neither works                                   *)
(*   eq     : the equation collaborator inserts the equation                *)
(*   tmpl   : the template file: "ok" inserted, "fail" no strategy inserts  *)
(*            it, "missing" the file does not exist                         *)
(*   cell   : MoveToCell takes the cursor into a table cell                 *)
(*   create : the TableCreate action works                                  *)
(*   nav    : the cell navigation commands work                             *)
(*   exit   : the strategy of the container exit that works                 *)
(*            (1 CloseEx, 2 TableLowerCell, 0 neither)                      *)
(*   getpos, setpos : GetPos, SetPos answer                                 *)
(*   find   : the search: "all" everywhere, "body" not inside table cells,  *)
(*            "fail" it finds nothing, "missing" there is no interface      *)
(*   run    : the actions run best-effort work, MoveDown apart              *)
(*   down   : the MoveDown action works                                     *)
(*   del    : the deleting action that works                                *)
(*            (1 Delete, 2 DeleteBack, 0 neither)                           *)

EnvUp ==
    [align |-> 1, brk |-> TRUE, ins |-> "bulk", eq |-> TRUE, tmpl |-> "ok",
     cell |-> TRUE, create |-> TRUE, nav |-> TRUE, exit |-> 1,
     getpos |-> TRUE, setpos |-> TRUE, find |-> "all", run |-> TRUE, down |-> TRUE,
     del |-> 1]

Pick(U, f, dom) == IF f \in U THEN dom ELSE {EnvUp[f]}

\* the behaviours that differ from EnvUp on the classes in U only
EnvsOver(U) ==
    [ align  : Pick(U, "align", 0..2),
      brk    : Pick(U, "brk", BOOLEAN),
      ins    : Pick(U, "ins", {"bulk", "keys", "fail"}),
      eq     : Pick(U, "eq", BOOLEAN),
      tmpl   : Pick(U, "tmpl", {"ok", "fail", "missing"}),
      cell   : Pick(U, "cell", BOOLEAN),
      create : Pick(U, "create", BOOLEAN),
      nav    : Pick(U, "nav", BOOLEAN),
      exit   : Pick(U, "exit", 0..2),
      getpos : Pick(U, "getpos", BOOLEAN),
      setpos : Pick(U, "setpos", BOOLEAN),
      find   : Pick(U, "find", {"all", "body", "fail", "missing"}),
      run    : Pick(U, "run", BOOLEAN),
      down   : Pick(U, "down", BOOLEAN),
      del    : Pick(U, "del", 0..2) ]

\* env agrees with EnvUp on every class of calls the handler did not make,
\* so that each behaviour of a call is counted once
Canonical(env, used) ==
    \A f \in DOMAIN EnvUp : f \in used \/ env[f] = EnvUp[f]

----------------------------------------------------------------------------
(* Outcome of a handler: the context it leaves, how it ended, the commands  *)
(* it sent (in order) and the classes of transport calls it made.           *)
(*   res: "ok" returned, "error" raised HwpControllerError, "raw" raised    *)
(*        another exception (the transport's)                               *)
(*   why: the cause carried by the exception                                *)
(*   val: the value returned, for the helpers that return one               *)

Out(c, res, why, log, used) ==
    [ctx |-> c, res |-> res, why |-> why, log |-> log, used |-> used, val |-> TRUE]

OutVal(c, val, log, used) ==
    [ctx |-> c, res |-> "ok", why |-> "", log |-> log, used |-> used, val |-> val]

Quiet(c) == Out(c, "ok", "", <<>>, {})

\* o, with the commands and transport calls made before it put in front
After(log, used, o) ==
    [o EXCEPT !.log = log \o @, !.used = used \cup @]

\* o ran and, where it returned, n ran after it
Then(o, n) ==
    IF o.res # "ok" THEN o ELSE After(o.log, o.used, n)

\* `except Exception: pass` around a block
Swallow(o) == [o EXCEPT !.res = "ok", !.why = ""]

\* `except Exception as exc: raise HwpControllerError(...) from exc`
Wrap(o) ==
    IF o.res = "raw"
    THEN [o EXCEPT !.res = "error", !.why = "AutomationFailure"]
    ELSE o

\* a command sent to the application: its name, its argument, the strategy
\* that carried it out (0: every strategy failed) and, inside a table that
\* is being filled, the cell the cursor was in
Cmd(name, arg, via) == [cmd |-> name, arg |-> arg, via |-> via, at |-> <<>>]

Sent(log, name) == { i \in DOMAIN log : log[i].cmd = name }

\* _ensure_connected
NotConnected(c) == Out(c, "error", "NotConnected", <<>>, {})

AlignCmd(align) ==
    CASE align = "right"   -> "ParagraphShapeAlignRight"
      [] align = "center"  -> "ParagraphShapeAlignCenter"
      [] align = "justify" -> "ParagraphShapeAlignJustify"
      [] OTHER             -> "ParagraphShapeAlignLeft"

\* _set_paragraph_align: HAction.Run, then hwp.Run, every failure swallowed
\* (a missing session included).
_set_paragraph_align(conn, c, align, env) ==
    IF ~conn THEN Quiet(c)
    ELSE Out(c, "ok", "", << Cmd(AlignCmd(align), <<>>, env.align) >>, {"align"})

\* _insert_text_raw: the InsertText action, else one KeyIndicator per
\* character, whose failure is not caught
_insert_text_raw(conn, c, text, env) ==
    IF text = <<>> THEN Quiet(c)
    ELSE IF ~conn THEN NotConnected(c)
    ELSE CASE env.ins = "bulk" ->
                Out(c, "ok", "", << Cmd("InsertText", text, 1) >>, {"ins"})
           [] env.ins = "keys" ->
                Out(c, "ok", "", << Cmd("InsertText", text, 2) >>, {"ins"})
           [] OTHER ->
                Out(c, "raw", "Transport", << Cmd("InsertText", text, 0) >>, {"ins"})

\* a paragraph break that arms the leading-space rule of the box again
insert_enter_rearms_box(conn, c, env) ==
    IF ~conn THEN NotConnected(c)
    ELSE IF ~env.brk
    THEN Out(c, "error", "AutomationFailure", << Cmd("BreakPara", <<>>, 0) >>, {"brk"})
    ELSE
      LET c1 == [c EXCEPT !.box_line_start =
                              IF c.in_condition_box THEN TRUE ELSE @,
                          !.line_start = TRUE]
          aR == IF c1.line_right_aligned
                THEN _set_paragraph_align(conn, c1, "left", env) ELSE Quiet(c1)
          aJ == IF c1.line_justify_aligned
                THEN _set_paragraph_align(conn, c1, "left", env) ELSE Quiet(c1)
          aC == IF c1.line_center_aligned
                THEN _set_paragraph_align(conn, c1, "left", env) ELSE Quiet(c1)
          c2 == [c1 EXCEPT !.line_right_aligned = FALSE,
                           !.line_justify_aligned = FALSE,
                           !.line_center_aligned = FALSE]
      IN Out(c2, "ok", "",
             << Cmd("BreakPara", <<>>, 1) >> \o aR.log \o aJ.log \o aC.log,
             {"brk"} \cup aR.used \cup aJ.used \cup aC.used)

\* a paragraph break that also drops the pending one-shot requests
insert_enter_drops_pending(conn, c, env) ==
    IF ~conn THEN NotConnected(c)
    ELSE IF ~env.brk
    THEN Out(c, "error", "AutomationFailure", << Cmd("BreakPara", <<>>, 0) >>, {"brk"})
    ELSE
      LET c1 == [c EXCEPT !.box_line_start =
                              IF c.in_condition_box THEN FALSE ELSE @,
                          !.line_start = TRUE]
          aR == IF c1.line_right_aligned
                THEN _set_paragraph_align(conn, c1, "left", env) ELSE Quiet(c1)
          aJ == IF c1.line_justify_aligned
                THEN _set_paragraph_align(conn, c1, "left", env) ELSE Quiet(c1)
          aC == IF c1.line_center_aligned
                THEN _set_paragraph_align(conn, c1, "left", env) ELSE Quiet(c1)
          c2 == [c1 EXCEPT !.line_right_aligned = FALSE,
                           !.line_justify_aligned = FALSE,
                           !.line_center_aligned = FALSE,
                           !.align_right_next_line = FALSE,
                           !.align_justify_next_line = FALSE]
      IN Out(c2, "ok", "",
             << Cmd("BreakPara", <<>>, 1) >> \o aR.log \o aJ.log \o aC.log,
             {"brk"} \cup aR.used \cup aJ.used \cup aC.used)

\* insert_enter, were it to leave the justify override of the line in place.
insert_enter_keeps_justify(conn, c, env) ==
    IF ~conn THEN NotConnected(c)
    ELSE IF ~env.brk
    THEN Out(c, "error", "AutomationFailure", << Cmd("BreakPara", <<>>, 0) >>, {"brk"})
    ELSE
      LET c1 == [c EXCEPT !.box_line_start =
                              IF c.in_condition_box THEN FALSE ELSE @,
                          !.line_start = TRUE]
          aR == IF c1.line_right_aligned
                THEN _set_paragraph_align(conn, c1, "left", env) ELSE Quiet(c1)
      IN Out([c1 EXCEPT !.line_right_aligned = FALSE], "ok", "",
             << Cmd("BreakPara", <<>>, 1) >> \o aR.log, {"brk"} \cup aR.used)

\* insert_enter
insert_enter(conn, c, env) ==
    IF ~conn THEN NotConnected(c)
    ELSE IF ~env.brk
    THEN Out(c, "error", "AutomationFailure", << Cmd("BreakPara", <<>>, 0) >>, {"brk"})
    ELSE
      LET c1 == [c EXCEPT !.box_line_start =
                              IF c.in_condition_box THEN FALSE ELSE @,
                          !.line_start = TRUE]
          aR == IF c1.line_right_aligned
                THEN _set_paragraph_align(conn, c1, "left", env) ELSE Quiet(c1)
          aJ == IF c1.line_justify_aligned
                THEN _set_paragraph_align(conn, c1, "left", env) ELSE Quiet(c1)
          aC == IF c1.line_center_aligned
                THEN _set_paragraph_align(conn, c1, "left", env) ELSE Quiet(c1)
          c2 == [c1 EXCEPT !.line_right_aligned = FALSE,
                           !.line_justify_aligned = FALSE,
                           !.line_center_aligned = FALSE]
      IN Out(c2, "ok", "",
             << Cmd("BreakPara", <<>>, 1) >> \o aR.log \o aJ.log \o aC.log,
             {"brk"} \cup aR.used \cup aJ.used \cup aC.used)

\* The one-shot alignment block, were it to leave the right flag armed.
ApplyPendingAlignKeepsFlag(conn, c, env) ==
    LET doR == c.line_start /\ c.align_right_next_line
        aR == IF doR THEN _set_paragraph_align(conn, c, "right", env) ELSE Quiet(c)
        c1 == IF doR THEN [c EXCEPT !.line_right_aligned = TRUE] ELSE c
        doJ == c1.line_start /\ c1.align_justify_next_line
        aJ == IF doJ THEN _set_paragraph_align(conn, c1, "justify", env) ELSE Quiet(c1)
        c2 == IF doJ
              THEN [c1 EXCEPT !.align_justify_next_line = FALSE,
                              !.line_justify_aligned = TRUE]
              ELSE c1
    IN OutVal(c2, doR, aR.log \o aJ.log, aR.used \cup aJ.used)

\* The one-shot alignment block, were it to clear the flags only when the
\* alignment command was carried out.
ApplyPendingAlignOnSuccess(conn, c, env) ==
    LET done == conn /\ env.align # 0
        doR == c.line_start /\ c.align_right_next_line
        aR == IF doR THEN _set_paragraph_align(conn, c, "right", env) ELSE Quiet(c)
        c1 == IF doR /\ done
              THEN [c EXCEPT !.align_right_next_line = FALSE,
                             !.line_right_aligned = TRUE]
              ELSE c
        doJ == c1.line_start /\ c1.align_justify_next_line
        aJ == IF doJ THEN _set_paragraph_align(conn, c1, "justify", env) ELSE Quiet(c1)
        c2 == IF doJ /\ done
              THEN [c1 EXCEPT !.align_justify_next_line = FALSE,
                              !.line_justify_aligned = TRUE]
              ELSE c1
    IN OutVal(c2, doR, aR.log \o aJ.log, aR.used \cup aJ.used)

\* The one-shot alignment block of insert_text (lines 513-522) and of
\* insert_equation (lines 803-812).  val: skip_auto_indent_right.
ApplyPendingAlign(conn, c, env) ==
    LET doR == c.line_start /\ c.align_right_next_line
        aR == IF doR THEN _set_paragraph_align(conn, c, "right", env) ELSE Quiet(c)
        c1 == IF doR
              THEN [c EXCEPT !.align_right_next_line = FALSE,
                             !.line_right_aligned = TRUE]
              ELSE c
        doJ == c1.line_start /\ c1.align_justify_next_line
        aJ == IF doJ THEN _set_paragraph_align(conn, c1, "justify", env) ELSE Quiet(c1)
        c2 == IF doJ
              THEN [c1 EXCEPT !.align_justify_next_line = FALSE,
                              !.line_justify_aligned = TRUE]
              ELSE c1
    IN OutVal(c2, doR, aR.log \o aJ.log, aR.used \cup aJ.used)

\* The equation-space rule, were it to drop every leading space.
StripAfterEquationAll(c, text) ==
    IF c.last_was_equation THEN LStripOf(text, {SP}) ELSE text

\* The box rule, were it to apply on every line of the box.
BoxLineStartAlways(c, text) ==
    c.in_condition_box /\ ~StartsWith(text, <<SP>>)

\* The end of insert_text, were it to leave line_start set.
InsertTextDoneKeepsLineStart(c) ==
    [c EXCEPT !.last_was_equation = FALSE, !.first_line_written = TRUE]

\* insert_text, lines 543-545: one leading space goes after an equation
StripAfterEquation(c, text) ==
    IF c.last_was_equation /\ StartsWith(text, <<SP>>) THEN Tail(text) ELSE text

\* insert_text, line 546: the text opens the first line of a box
BoxLineStart(c, text) ==
    c.in_condition_box /\ c.box_line_start /\ ~StartsWith(text, <<SP>>)

\* insert_text, lines 550-553
InsertTextDone(c) ==
    [c EXCEPT !.line_start = FALSE,
              !.last_was_equation = FALSE,
              !.first_line_written = TRUE]

\* insert_text, lines 549-553: the text went in (raw), then the flags
InsertTextTyped(raw) ==
    IF raw.res # "ok" THEN raw
    ELSE [raw EXCEPT !.ctx = InsertTextDone(raw.ctx)]

\* a text step whose right-alignment strip removes the spaces only
InsertTextTailStripsSpaces(conn, a, text1, env) ==
    LET c3 == IF a.ctx.line_start
                 /\ (StartsWith(text1, <<TAB>>) \/ StartsWith(text1, <<SP>>))
              THEN [a.ctx EXCEPT !.line_start = FALSE]
              ELSE a.ctx
        text2 == IF a.val THEN LStripOf(text1, {SP}) ELSE text1
        text3 == StripAfterEquation(c3, text2)
        box == BoxLineStart(c3, text3)
        text4 == IF box THEN <<SP>> \o text3 ELSE text3
        c4 == IF box THEN [c3 EXCEPT !.box_line_start = FALSE] ELSE c3
    IN After(a.log, a.used,
             InsertTextTyped(_insert_text_raw(conn, c4, text4, env)))

\* insert_text, lines 524-553: what follows the one-shot alignment block a
InsertTextTail(conn, a, text1, env) ==
    LET c3 == IF a.ctx.line_start
                 /\ (StartsWith(text1, <<TAB>>) \/ StartsWith(text1, <<SP>>))
              THEN [a.ctx EXCEPT !.line_start = FALSE]
              ELSE a.ctx
        text2 == IF a.val THEN LStripOf(text1, {SP, TAB}) ELSE text1
        text3 == StripAfterEquation(c3, text2)
        box == BoxLineStart(c3, text3)
        text4 == IF box THEN <<SP>> \o text3 ELSE text3
        c4 == IF box THEN [c3 EXCEPT !.box_line_start = FALSE] ELSE c3
    IN After(a.log, a.used,
             InsertTextTyped(_insert_text_raw(conn, c4, text4, env)))

\* insert_text, lines 512-553: what follows the paragraph break e
InsertTextLine(conn, e, text1, env) ==
    Then(e, InsertTextTail(conn, ApplyPendingAlign(conn, e.ctx, env), text1, env))

\* an insert_text that breaks the paragraph before a tab-led text on the
\* first line as well
insert_text_breaks_first_line(conn, c, text, env) ==
    IF text = <<>> THEN Quiet(c)
    ELSE InsertTextLine(conn,
                        IF c.line_start /\ StartsWith(NormalizeTab(text), <<TAB>>)
                        THEN insert_enter(conn, c, env)
                        ELSE Quiet(c),
                        NormalizeTab(text), env)

\* insert_text
insert_text(conn, c, text, env) ==
    IF text = <<>> THEN Quiet(c)
    ELSE InsertTextLine(conn,
                        IF c.line_start /\ StartsWith(NormalizeTab(text), <<TAB>>)
                              /\ c.first_line_written
                        THEN insert_enter(conn, c, env)
                        ELSE Quiet(c),
                        NormalizeTab(text), env)

\* _maybe_insert_line_indent
_maybe_insert_line_indent(conn, c, spaces, env) ==
    IF c.in_condition_box THEN Quiet(c)
    ELSE IF c.line_start /\ c.first_line_written
    THEN LET raw == _insert_text_raw(conn, c, Spaces(spaces), env)
         IN IF raw.res # "ok" THEN raw
            ELSE [raw EXCEPT !.ctx = [c EXCEPT !.line_start = FALSE]]
    ELSE Quiet(c)

\* insert_equation, lines 816-827: the equation object itself
InsertEquationControl(conn, c, content, env) ==
    IF ~conn THEN NotConnected(c)
    ELSE IF ~env.eq
    THEN Out(c, "raw", "Transport", << Cmd("Equation", content, 0) >>, {"eq"})
    ELSE Out([c EXCEPT !.line_start = FALSE,
                       !.last_was_equation = TRUE,
                       !.first_line_written = TRUE],
             "ok", "", << Cmd("Equation", content, 1) >>, {"eq"})

\* insert_equation, lines 816-827: what follows the indent i of the line
InsertEquationIndented(conn, i, content, env) ==
    Then(i, InsertEquationControl(conn, i.ctx, content, env))

\* an equation step that skips the auto-indent whenever an alignment was
\* pending, justify included
InsertEquationAlignedEitherSkips(conn, a, content, env) ==
    After(a.log, a.used,
          IF a.log # <<>> THEN InsertEquationControl(conn, a.ctx, content, env)
          ELSE InsertEquationIndented(conn,
                                      _maybe_insert_line_indent(conn, a.ctx, 2, env),
                                      content, env))

\* insert_equation, lines 814-827: what follows the one-shot alignment
\* block a
InsertEquationAligned(conn, a, content, env) ==
    After(a.log, a.used,
          IF a.val THEN InsertEquationControl(conn, a.ctx, content, env)
          ELSE InsertEquationIndented(conn,
                                      _maybe_insert_line_indent(conn, a.ctx, 2, env),
                                      content, env))

\* insert_equation, lines 803-827: what follows the leading tab t
InsertEquationLine(conn, t, content, env) ==
    Then(t, InsertEquationAligned(conn, ApplyPendingAlign(conn, t.ctx, env),
                                  content, env))

\* an insert_equation that hands the content on with its tabs
insert_equation_keeps_tab(conn, c, hwpeqn, env) ==
    LET tabbed == c.line_start /\ StartsWith(hwpeqn, <<TAB>>)
    IN InsertEquationLine(conn,
                          IF tabbed THEN insert_text(conn, c, <<TAB>>, env)
                          ELSE Quiet(c),
                          hwpeqn, env)

\* insert_equation
insert_equation(conn, c, hwpeqn, env) ==
    LET tabbed == c.line_start /\ StartsWith(hwpeqn, <<TAB>>)
    IN InsertEquationLine(conn,
                          IF tabbed THEN insert_text(conn, c, <<TAB>>, env)
                          ELSE Quiet(c),
                          IF tabbed THEN LStripOf(hwpeqn, {TAB}) ELSE hwpeqn,
                          env)

----------------------------------------------------------------------------
(* Structural containers.                                                   *)

\* _try_insert_template: val says whether the file was inserted
_try_insert_template(conn, c, name, env) ==
    IF env.tmpl = "missing" THEN OutVal(c, FALSE, <<>>, {"tmpl"})
    ELSE IF ~conn THEN After(<<>>, {"tmpl"}, NotConnected(c))
    ELSE IF env.tmpl = "ok"
    THEN OutVal(c, TRUE, << Cmd("InsertFile", name, 1) >>, {"tmpl"})
    ELSE OutVal(c, FALSE, << Cmd("InsertFile", name, 0) >>, {"tmpl"})

\* _move_to_table_cell: val says whether the cursor is in a cell
_move_to_table_cell(conn, c, env) ==
    IF ~conn THEN NotConnected(c)
    ELSE OutVal(c, env.cell,
                << Cmd("MoveToCell", <<>>, IF env.cell THEN 1 ELSE 0) >>, {"cell"})

\* the TableCreate action of _insert_box_raw, insert_table and
\* _insert_1x1_table
TableCreate(conn, c, rows, cols, env) ==
    IF ~conn THEN NotConnected(c)
    ELSE IF env.create
    THEN Out(c, "ok", "", << Cmd("TableCreate", <<rows, cols>>, 1) >>, {"create"})
    ELSE Out(c, "raw", "Transport", << Cmd("TableCreate", <<rows, cols>>, 0) >>, {"create"})

\* _insert_box_raw
_insert_box_raw(conn, c, env) == TableCreate(conn, c, 1, 1, env)

\* _apply_compact_paragraph (and _apply_box_text_style before it): every
\* failure of the styling itself is swallowed
_apply_compact_paragraph(conn, c) ==
    IF ~conn THEN NotConnected(c) ELSE Quiet(c)

\* the assignments of _mark_inside_box, repeated in insert_box and
\* insert_view_box
_mark_inside_box(c) ==
    [c EXCEPT !.in_condition_box = TRUE,
              !.box_line_start = TRUE,
              !.line_start = FALSE,
              !.first_line_written = TRUE]

\* insert_box / insert_view_box, the template branch after the first move m
\* into the cell (lines 1385-1395, 1418-1427): a raw box where it failed
BoxAfterMove(conn, c, m, env) ==
    Then(m, IF m.val
            THEN _apply_compact_paragraph(conn, _mark_inside_box(c))
            ELSE Then(_insert_box_raw(conn, c, env),
                      Then(_move_to_table_cell(conn, c, env),
                           _apply_compact_paragraph(conn, _mark_inside_box(c)))))

\* insert_box / insert_view_box, the template branch after the template
\* went in (lines 1384-1395, 1416-1429)
BoxFromTemplate(conn, c, env) ==
    BoxAfterMove(conn, c, _move_to_table_cell(conn, c, env), env)

\* a container indent that takes no notice of a pending alignment
IndentBeforeContainerAlways(conn, c, env) ==
    _maybe_insert_line_indent(conn, c, 1, env)

\* insert_box / insert_view_box / insert_table: the indent of the line
\* before the container (lines 1396-1397, 1431-1432, 1487-1488)
IndentBeforeContainer(conn, c, env) ==
    IF ~(c.align_justify_next_line \/ c.align_right_next_line)
    THEN _maybe_insert_line_indent(conn, c, 1, env)
    ELSE Quiet(c)

\* the raw 1x1 container after the indent i (lines 1398-1399, 1433-1434)
BoxRawIndented(conn, i, env) ==
    Then(i, Then(_insert_box_raw(conn, i.ctx, env),
                 _move_to_table_cell(conn, i.ctx, env)))

\* the raw 1x1 container of insert_box and insert_view_box
\* (lines 1396-1399, 1431-1434): indent, create, move into the cell
BoxRaw(conn, c, env) ==
    BoxRawIndented(conn, IndentBeforeContainer(conn, c, env), env)

\* insert_box, lines 1400-1405: the raw box b is marked and styled
InsertBoxMarked(conn, b) ==
    Then(b, _apply_compact_paragraph(conn, _mark_inside_box(b.ctx)))

\* insert_box, lines 1384-1405: what follows the template attempt t
InsertBoxAfterTemplate(conn, c, t, env) ==
    Then(t, IF t.val THEN BoxFromTemplate(conn, c, env)
            ELSE InsertBoxMarked(conn, BoxRaw(conn, c, env)))

\* insert_box
insert_box(conn, c, env) ==
    Wrap(InsertBoxAfterTemplate(
            conn, c,
            _try_insert_template(conn, c, <<"box_template_noheader.hwp">>, env), env))

\* the header the raw branch of insert_view_box types
ViewBoxHeader == <<"<", " ", "V", " ", ">">>

\* insert_view_box, lines 1459-1463: after the paragraph break brk
ViewBoxHeaderBroken(conn, brk, env) ==
    Then(brk, _set_paragraph_align(conn, brk.ctx, "left", env))

\* insert_view_box, lines 1451-1463: after the header text t, the break by
\* HAction.Run and, where that fails, by insert_enter
ViewBoxHeaderTyped(conn, t, env) ==
    Then(t, ViewBoxHeaderBroken(
                conn,
                IF env.brk
                THEN Out(t.ctx, "ok", "", << Cmd("BreakPara", <<>>, 1) >>, {"brk"})
                ELSE After(<< Cmd("BreakPara", <<>>, 0) >>, {"brk"},
                           insert_enter(conn, t.ctx, env)),
                env))

\* insert_view_box, lines 1439-1463: the centred header, every failure
\* swallowed by the enclosing try
ViewBoxHeaderBlock(conn, c, env) ==
    Swallow(Then(_set_paragraph_align(conn, c, "center", env),
                 ViewBoxHeaderTyped(conn, insert_text(conn, c, ViewBoxHeader, env),
                                    env)))

\* insert_view_box, lines 1428-1429: the box b from the template, justified
ViewBoxJustified(conn, b, env) ==
    Then(b, _set_paragraph_align(conn, b.ctx, "justify", env))

\* insert_view_box, lines 1465-1469: after the header block h
ViewBoxRawHeaded(conn, h, env) ==
    Then(h, Then(_apply_compact_paragraph(conn, h.ctx),
                 _set_paragraph_align(conn, h.ctx, "justify", env)))

\* insert_view_box, lines 1435-1469: after the raw box b
ViewBoxRawOpened(conn, b, env) ==
    Then(b, ViewBoxRawHeaded(
                conn,
                ViewBoxHeaderBlock(conn,
                                   [b.ctx EXCEPT !.line_start = FALSE,
                                                 !.first_line_written = TRUE],
                                   env),
                env))

\* insert_view_box, lines 1417-1469: what follows the template attempt t
InsertViewBoxAfterTemplate(conn, c, t, env) ==
    Then(t, IF t.val THEN ViewBoxJustified(conn, BoxFromTemplate(conn, c, env), env)
            ELSE ViewBoxRawOpened(conn, BoxRaw(conn, c, env), env))

\* insert_view_box
insert_view_box(conn, c, env) ==
    InsertViewBoxAfterTemplate(
        conn, c, _try_insert_template(conn, c, <<"box_template.hwp">>, env), env)

\* exit_table
exit_table(conn, c, env) ==
    IF ~conn THEN NotConnected(c)
    ELSE CASE env.exit = 1 ->
                Out(c, "ok", "", << Cmd("CloseEx", <<>>, 1), Cmd("MoveDown", <<>>, 1) >>,
                    {"exit"})
           [] env.exit = 2 ->
                Out(c, "ok", "", << Cmd("CloseEx", <<>>, 0), Cmd("TableLowerCell", <<>>, 1) >>,
                    {"exit"})
           [] OTHER ->
                Out(c, "error", "AutomationFailure",
                    << Cmd("CloseEx", <<>>, 0), Cmd("TableLowerCell", <<>>, 0) >>, {"exit"})

\* an exit that leaves the box flags alone when both strategies fail
exit_box_failure_keeps_flags(conn, c, env) ==
    IF ~conn THEN NotConnected(c)
    ELSE CASE env.exit = 1 ->
                Out([c EXCEPT !.in_condition_box = FALSE, !.box_line_start = FALSE],
                    "ok", "",
                    << Cmd("CloseEx", <<>>, 1), Cmd("MoveDown", <<>>, 1) >>, {"exit"})
           [] env.exit = 2 ->
                Out([c EXCEPT !.in_condition_box = FALSE, !.box_line_start = FALSE],
                    "ok", "",
                    << Cmd("CloseEx", <<>>, 0), Cmd("TableLowerCell", <<>>, 1),
                       Cmd("MoveDown", <<>>, 1) >>, {"exit"})
           [] OTHER ->
                Out(c, "error", "AutomationFailure",
                    << Cmd("CloseEx", <<>>, 0), Cmd("TableLowerCell", <<>>, 0) >>,
                    {"exit"})

\* exit_box
exit_box(conn, c, env) ==
    IF ~conn THEN NotConnected(c)
    ELSE LET c1 == [c EXCEPT !.in_condition_box = FALSE, !.box_line_start = FALSE]
         IN CASE env.exit = 1 ->
                   Out(c1, "ok", "",
                       << Cmd("CloseEx", <<>>, 1), Cmd("MoveDown", <<>>, 1) >>, {"exit"})
              [] env.exit = 2 ->
                   Out(c1, "ok", "",
                       << Cmd("CloseEx", <<>>, 0), Cmd("TableLowerCell", <<>>, 1),
                          Cmd("MoveDown", <<>>, 1) >>, {"exit"})
              [] OTHER ->
                   Out(c1, "error", "AutomationFailure",
                       << Cmd("CloseEx", <<>>, 0), Cmd("TableLowerCell", <<>>, 0) >>,
                       {"exit"})

----------------------------------------------------------------------------
(* Tables.                                                                  *)

\* the largest number of rows and of columns asked of insert_table
MaxDim == 2

EQ == <<"E", "Q", ":">>

\* cell_data as the callers pass it: None, a list of rows, or a flat list
\* of cell strings (flat is isinstance(cell_data[0], str))
NoData == [flat |-> FALSE, cells |-> <<>>]

CellDatas ==
    { NoData,
      [flat |-> FALSE,
       cells |-> << << <<"a">>, EQ \o <<"x">> >>, << <<" ", "b">>, <<"c">> >> >>],
      [flat |-> TRUE, cells |-> << EQ \o <<" ", "x">>, <<>>, <<"c">> >>] }

Min(a, b) == IF a < b THEN a ELSE b
Max(a, b) == IF a > b THEN a ELSE b

\* insert_table, lines 1589-1593: a flat list is cut into rows of cols cells
NormalizeCellData(cell_data, cols) ==
    IF cell_data.flat
    THEN [ r \in 1..((Len(cell_data.cells) + cols - 1) \div cols) |->
             SubSeq(cell_data.cells, (r - 1) * cols + 1,
                    Min(r * cols, Len(cell_data.cells))) ]
    ELSE cell_data.cells

\* the cell the cursor is in after a navigation command carried out in a
\* rows x cols table
MoveCell(cur, command, rows, cols) ==
    CASE command = "TableRightCell" -> << cur[1], Min(cur[2] + 1, cols) >>
      [] command = "TableLeftCell"  -> << cur[1], Max(cur[2] - 1, 1) >>
      [] command = "TableLowerCell" -> << Min(cur[1] + 1, rows), cur[2] >>

Stamp(log, cur) == [ i \in DOMAIN log |-> [log[i] EXCEPT !.at = cur] ]

\* The walk over the cells keeps, with the outcome so far, the cell the
\* cursor is in.
Walk(o, cur) == [o |-> o, cur |-> cur]

\* insert_table, _run (lines 1595-1602): a navigation command, failures
\* swallowed
RunNav(w, command, rows, cols, env) ==
    Walk(After(w.o.log, w.o.used,
               Out(w.o.ctx, "ok", "",
                   Stamp(<< Cmd(command, <<>>, IF env.nav THEN 1 ELSE 0) >>, w.cur),
                   {"nav"})),
         IF env.nav THEN MoveCell(w.cur, command, rows, cols) ELSE w.cur)

RECURSIVE RunNavTimes(_, _, _, _, _, _)
RunNavTimes(w, command, n, rows, cols, env) ==
    IF n <= 0 THEN w
    ELSE RunNavTimes(RunNav(w, command, rows, cols, env), command, n - 1, rows, cols, env)

\* insert_table, lines 1609-1628: one cell
FillCell(conn, w, value, align_center, env) ==
    LET ac == IF align_center
              THEN _set_paragraph_align(conn, w.o.ctx, "center", env)
              ELSE Quiet(w.o.ctx)
        ins == IF value = <<>> THEN Quiet(w.o.ctx)
               ELSE IF StartsWith(value, EQ)
               THEN insert_equation(conn, w.o.ctx,
                                    Strip(SubSeq(value, Len(EQ) + 1, Len(value))), env)
               ELSE insert_text(conn, w.o.ctx, value, env)
    IN Walk(After(w.o.log \o Stamp(ac.log, w.cur), w.o.used \cup ac.used,
                  [ins EXCEPT !.log = Stamp(@, w.cur)]),
            w.cur)

\* insert_table, lines 1629-1630: on to the cell at the right
NextCell(w, k, rows, cols, env) ==
    IF w.o.res = "ok" /\ k < cols
    THEN RunNav(w, "TableRightCell", rows, cols, env)
    ELSE w

\* insert_table, lines 1608-1630: the cells of row r from column k on
RECURSIVE FillRow(_, _, _, _, _, _, _, _)
FillRow(conn, w, row, k, rows, cols, align_center, env) ==
    IF w.o.res # "ok" \/ k > Min(cols, Len(row)) THEN w
    ELSE FillRow(conn,
                 NextCell(FillCell(conn, w, row[k], align_center, env),
                          k, rows, cols, env),
                 row, k + 1, rows, cols, align_center, env)

\* insert_table, lines 1631-1634: down to the first cell of the next row
NextRow(w, r, rows, cols, env) ==
    IF w.o.res = "ok" /\ r < rows
    THEN RunNavTimes(RunNav(w, "TableLowerCell", rows, cols, env),
                     "TableLeftCell", cols - 1, rows, cols, env)
    ELSE w

\* insert_table, lines 1604-1634: the rows from row r on
RECURSIVE FillRows(_, _, _, _, _, _, _, _)
FillRows(conn, w, data, r, rows, cols, align_center, env) ==
    IF w.o.res # "ok" \/ r > Min(rows, Len(data)) THEN w
    ELSE FillRows(conn,
                  NextRow(FillRow(conn, w, data[r], 1, rows, cols, align_center, env),
                          r, rows, cols, env),
                  data, r + 1, rows, cols, align_center, env)

\* insert_table, lines 1502-1504: the flags once the table t is there
TableOpened(t) ==
    [t EXCEPT !.ctx = [@ EXCEPT !.line_start = FALSE, !.first_line_written = TRUE]]

\* insert_table, lines 1502-1634: what follows the creation t of the table
TableCreated(conn, t, rows, cols, cell_data, align_center, env) ==
    IF t.res # "ok" THEN t
    ELSE IF cell_data.cells = <<>> THEN TableOpened(t)
    ELSE FillRows(conn, Walk(TableOpened(t), <<1, 1>>),
                  NormalizeCellData(cell_data, cols),
                  1, rows, cols, align_center, env).o

\* insert_table, lines 1489-1634: what follows the indent i of the line
TableIndented(conn, i, rows, cols, cell_data, align_center, env) ==
    Then(i, TableCreated(conn, TableCreate(conn, i.ctx, rows, cols, env),
                         rows, cols, cell_data, align_center, env))

\* insert_table, the try block (lines 1486-1634)
TableBody(conn, c, rows, cols, cell_data, align_center, env) ==
    TableIndented(conn, IndentBeforeContainer(conn, c, env),
                  rows, cols, cell_data, align_center, env)

\* The finally block, were it to reset the alignment without marking the
\* line start.
TableFinallyKeepsLine(conn, o, exit_after, env) ==
    IF ~exit_after THEN o
    ELSE LET x == exit_table(conn, o.ctx, env)
             al == _set_paragraph_align(conn, o.ctx, "left", env)
         IN [o EXCEPT !.log = @ \o x.log \o al.log,
                      !.used = @ \cup x.used \cup al.used]

\* insert_table, the finally block (lines 1637-1652)
TableFinally(conn, o, exit_after, env) ==
    IF ~exit_after THEN o
    ELSE LET x == exit_table(conn, o.ctx, env)
             al == _set_paragraph_align(conn, o.ctx, "left", env)
         IN [o EXCEPT !.ctx = [o.ctx EXCEPT !.line_start = TRUE],
                      !.log = @ \o x.log \o al.log,
                      !.used = @ \cup x.used \cup al.used]

\* insert_table, were the dimensions checked inside the try block, so
\* that the finally block ran for a refused call too.
insert_table_checks_late(conn, c, rows, cols, cell_data, align_center, exit_after, env) ==
    LET refused == rows <= 0 \/ cols <= 0
    IN IF ~refused /\ ~conn THEN NotConnected(c)
       ELSE TableFinally(conn,
                         IF refused
                         THEN Out(c, "error", "InvalidArgument", <<>>, {})
                         ELSE Wrap(TableBody(conn, c, rows, cols, cell_data,
                                             align_center, env)),
                         exit_after, env)

\* insert_table
insert_table(conn, c, rows, cols, cell_data, align_center, exit_after, env) ==
    IF rows <= 0 \/ cols <= 0 THEN Out(c, "error", "InvalidArgument", <<>>, {})
    ELSE IF ~conn THEN NotConnected(c)
    ELSE TableFinally(conn,
                      Wrap(TableBody(conn, c, rows, cols, cell_data, align_center, env)),
                      exit_after, env)

----------------------------------------------------------------------------
(* The placeholder locator.  The document is a sequence of paragraphs, each *)
(* in the body or in a table cell; the cursor is in one of them, and a      *)
(* search that hits leaves the needle selected.  In the strings below, %    *)
(* stands for the full-width number sign and V for the heading word.        *)

\* a paragraph of the document: its text, and whether it lies in a table cell
Line(text, table) == [text |-> text, table |-> table]

\* a document of one empty paragraph, the cursor in it, nothing selected
NoDoc == [lines |-> << Line("", FALSE) >>, cur |-> 1, sel |-> FALSE]

\* The candidates, were the plain marker the only one.
CandidatesPlainOnly == << "###" >>

\* _focus_hash_placeholder, line 1276
Candidates == << "###", "%%%", "# # #", "% % %" >>

\* _focus_view_box_from_heading, line 1343
HeadingCandidates == << "<V>", "< V >", "<V", "V>" >>

\* the search finds the needle inside the text of a paragraph
Contains(text, needle) ==
    \/ text = needle
    \/ text = "<V>" /\ needle \in {"<V", "V>"}

\* the result of a step of the locator: the document it leaves, whether it
\* succeeded, and the commands it sent
Loc(d, val, log) == [d |-> d, val |-> val, res |-> "ok", log |-> log]

\* r, with the commands sent before it put in front
Later(log, r) == [r EXCEPT !.log = log \o @]

\* _capture_cursor_pos: the position, or 0 for None
_capture_cursor_pos(d, env) == IF env.getpos THEN d.cur ELSE 0

\* _restore_cursor_pos
_restore_cursor_pos(d, pos, env) ==
    IF pos = 0 THEN Loc(d, FALSE, <<>>)
    ELSE IF env.setpos
    THEN Loc([d EXCEPT !.cur = pos, !.sel = FALSE], TRUE, << Cmd("SetPos", pos, 1) >>)
    ELSE Loc(d, FALSE, << Cmd("SetPos", pos, 0) >>)

\* what the application does with a command that is carried out
Effect(d, action_name) ==
    CASE action_name = "MoveDown" ->
            [d EXCEPT !.cur = Min(@ + 1, Len(d.lines)), !.sel = FALSE]
      [] action_name \in {"MoveDocBegin", "MoveTop", "MoveBegin"} ->
            [d EXCEPT !.cur = 1, !.sel = FALSE]
      [] action_name = "Cancel" ->
            [d EXCEPT !.sel = FALSE]
      [] action_name \in {"Delete", "DeleteBack"} ->
            IF d.sel
            THEN [d EXCEPT !.lines[d.cur].text = "", !.sel = FALSE]
            ELSE d
      [] OTHER -> d

\* whether some strategy of _run_action_best_effort carries the command out
Works(env, action_name) ==
    CASE action_name = "Delete"     -> env.del = 1
      [] action_name = "DeleteBack" -> env.del # 0
      [] action_name = "MoveDown"   -> env.down
      [] OTHER                      -> env.run

\* _run_action_best_effort
_run_action_best_effort(d, action_name, env) ==
    IF Works(env, action_name)
    THEN Loc(Effect(d, action_name), TRUE, << Cmd(action_name, <<>>, 1) >>)
    ELSE Loc(d, FALSE, << Cmd(action_name, <<>>, 0) >>)

\* `if a: return True` followed by b, where a command that is not carried
\* out leaves the document as it was
FirstOf(a, b) == IF a.val THEN a ELSE Later(a.log, b)

\* _move_doc_start
_move_doc_start(d, env) ==
    FirstOf(_run_action_best_effort(d, "MoveDocBegin", env),
            FirstOf(_run_action_best_effort(d, "MoveTop", env),
                    _run_action_best_effort(d, "MoveBegin", env)))

\* the paragraphs p and q lie in one table
SameTable(d, p, q) == \A k \in Min(p, q)..Max(p, q) : d.lines[k].table

\* the paragraphs the search can reach: all of them where the application
\* searches inside tables, else the body and the table the cursor is in
Searchable(d, p, env) ==
    \/ env.find = "all"
    \/ ~d.lines[p].table
    \/ SameTable(d, p, d.cur)

SetMin(S) == CHOOSE x \in S : \A y \in S : x <= y
SetMax(S) == CHOOSE x \in S : \A y \in S : x >= y

\* _repeat_find: direction 0 forward from the cursor, 1 backward, 2 the
\* whole document; raises when the search interface is missing
_repeat_find(d, needle, direction, env) ==
    LET hits == { p \in DOMAIN d.lines :
                    Contains(d.lines[p].text, needle) /\ Searchable(d, p, env) }
        ahead == CASE direction = 0 -> { p \in hits : p >= d.cur }
                   [] direction = 1 -> { p \in hits : p <= d.cur }
                   [] OTHER         -> hits
        miss == << Cmd("RepeatFind", <<needle, direction>>, 0) >>
    IN IF env.find = "missing" THEN [Loc(d, FALSE, miss) EXCEPT !.res = "error"]
       ELSE IF env.find = "fail" \/ ahead = {} THEN Loc(d, FALSE, miss)
       ELSE Loc([d EXCEPT !.cur = IF direction = 1 THEN SetMax(ahead) ELSE SetMin(ahead),
                          !.sel = TRUE],
                TRUE, << Cmd("RepeatFind", <<needle, direction>>, 1) >>)

\* _repeat_find_retry, lines 1189-1192: one round, from its k-th search on
RECURSIVE FindRound(_, _, _, _, _)
FindRound(r, candidates, directions, k, env) ==
    IF r.res # "ok" \/ r.val \/ k >= Len(directions) * Len(candidates) THEN r
    ELSE FindRound(Later(r.log,
                         _repeat_find(r.d, candidates[(k % Len(candidates)) + 1],
                                      directions[(k \div Len(candidates)) + 1], env)),
                   candidates, directions, k + 1, env)

\* _repeat_find_retry, lines 1188-1195: the rounds from round i on
RECURSIVE FindRounds(_, _, _, _, _, _)
FindRounds(r, candidates, attempts, directions, i, env) ==
    IF r.res # "ok" \/ r.val \/ i >= Max(1, attempts) THEN r
    ELSE FindRounds(FindRound(r, candidates, directions, 0, env),
                    candidates, attempts, directions, i + 1, env)

\* _repeat_find_retry
_repeat_find_retry(d, candidates, attempts, directions, env) ==
    FindRounds(Loc(d, FALSE, <<>>), candidates, attempts, directions, 0, env)

\* _delete_found_marker
_delete_found_marker(d, env) ==
    FirstOf(_run_action_best_effort(d, "Delete", env),
            _run_action_best_effort(d, "DeleteBack", env))

\* _move_to_table_cell, in a document: true when the cursor is in a cell
MoveToCellIn(d, env) ==
    LET in == env.cell /\ d.lines[d.cur].table
    IN Loc(d, in, << Cmd("MoveToCell", <<>>, IF in THEN 1 ELSE 0) >>)

\* one step of that loop after the move m down: is the cursor in a cell
StepDown(m, env) == Later(m.log, MoveToCellIn(m.d, env))

\* the loop of _navigate_forward_into_table (lines 1331-1335) and of
\* _focus_view_box_from_heading (lines 1360-1363): n steps down
RECURSIVE StepDownIntoTable(_, _, _)
StepDownIntoTable(r, n, env) ==
    IF r.val \/ n <= 0 THEN r
    ELSE StepDownIntoTable(StepDown(Later(r.log,
                                          _run_action_best_effort(r.d, "MoveDown", env)),
                                    env),
                           n - 1, env)

\* the steps _navigate_forward_into_table takes at most (line 1331)
NavSteps == 80

\* the steps _focus_view_box_from_heading takes at most (line 1360)
HeadingSteps == 20

\* _navigate_forward_into_table
_navigate_forward_into_table(d, env) ==
    StepDownIntoTable(Loc(d, FALSE, <<>>), NavSteps, env)

\* r did not do what it was for: the cursor goes back to the saved position
GiveUp(r, saved, env) ==
    [Later(r.log, _restore_cursor_pos(r.d, saved, env)) EXCEPT !.val = FALSE]

\* _focus_view_box_from_heading, lines 1364-1367: after the steps down
HeadingBox(saved, down, env) ==
    IF down.val THEN down ELSE GiveUp(down, saved, env)

\* _focus_view_box_from_heading, lines 1353-1367: after the searches f for
\* the heading
HeadingFound(saved, f, env) ==
    IF f.res # "ok" THEN f
    ELSE IF ~f.val THEN GiveUp(f, saved, env)
    ELSE HeadingBox(saved,
                    StepDownIntoTable(
                        [Later(f.log, _run_action_best_effort(f.d, "Cancel", env))
                            EXCEPT !.val = FALSE],
                        HeadingSteps, env),
                    env)

\* _focus_view_box_from_heading, lines 1349-1352: the search from the top
\* of the document
HeadingFromTop(top, env) ==
    Later(top.log, _repeat_find_retry(top.d, HeadingCandidates, 8, <<0>>, env))

\* _focus_view_box_from_heading, lines 1348-1367: after the first search f1
HeadingSearched(saved, f1, env) ==
    HeadingFound(saved,
                 IF f1.res # "ok" \/ f1.val THEN f1
                 ELSE HeadingFromTop(Later(f1.log, _move_doc_start(f1.d, env)), env),
                 env)

\* _focus_view_box_from_heading
_focus_view_box_from_heading(d, env) ==
    HeadingSearched(_capture_cursor_pos(d, env),
                    _repeat_find_retry(d, HeadingCandidates, 6, <<0, 1>>, env), env)

\* the outcome of the locator: that of a handler, and the document
Located(c, r) ==
    [ out |-> Out(c, r.res, IF r.res = "ok" THEN "" ELSE "AutomationFailure",
                  r.log, {}),
      d |-> r.d ]

\* _focus_hash_placeholder, lines 1289-1291, 1298-1300, 1307-1309: after
\* the search f inside the box
MarkerInBox(c, f, env) ==
    IF f.res # "ok" THEN Located(c, f)
    ELSE IF f.val
    THEN Located(_mark_inside_box(c), Later(f.log, _delete_found_marker(f.d, env)))
    ELSE Located(_mark_inside_box(c), f)

\* _focus_hash_placeholder, lines 1288-1291, 1297-1300, 1306-1309: the
\* cursor is in a table cell
SearchInsideBox(c, r, env) ==
    MarkerInBox(c, Later(r.log, _repeat_find_retry(r.d, Candidates, 2, <<0, 1>>, env)),
                env)

\* _focus_hash_placeholder, lines 1305-1313: after the steps s4 forward
\* into a table from the restored position
HashLast(c, s4, env) ==
    IF s4.val THEN SearchInsideBox(c, s4, env) ELSE Located(c, s4)

\* _focus_hash_placeholder, lines 1303-1309: forward into a table again,
\* from the restored position r4
HashFromOrigin(c, r4, env) ==
    HashLast(c, Later(r4.log, _navigate_forward_into_table(r4.d, env)), env)

\* the same with the fourth strategy run whether or not a position was
\* captured
HashFromTableAlways(c, original_pos, s3, env) ==
    IF s3.val THEN SearchInsideBox(c, s3, env)
    ELSE HashFromOrigin(c, Later(s3.log, _restore_cursor_pos(s3.d, original_pos, env)),
                        env)

\* _focus_hash_placeholder, lines 1296-1313: after the steps s3 forward
\* into a table
HashFromTable(c, original_pos, s3, env) ==
    IF s3.val THEN SearchInsideBox(c, s3, env)
    ELSE IF original_pos = 0 THEN Located(c, s3)
    ELSE HashFromOrigin(c, Later(s3.log, _restore_cursor_pos(s3.d, original_pos, env)),
                        env)

\* _focus_hash_placeholder, lines 1286-1313: after the search s2 for the
\* heading of a view box
HashFromHeading(c, original_pos, s2, env) ==
    IF s2.res # "ok" THEN Located(c, s2)
    ELSE IF s2.val THEN SearchInsideBox(c, s2, env)
    ELSE HashFromTable(c, original_pos,
                       Later(s2.log, _navigate_forward_into_table(s2.d, env)), env)

\* _focus_hash_placeholder, lines 1278-1313: after the search s1 of the
\* whole document
HashSearched(c, original_pos, s1, env) ==
    IF s1.res # "ok" THEN Located(c, s1)
    ELSE IF s1.val THEN Located(c, Later(s1.log, _delete_found_marker(s1.d, env)))
    ELSE HashFromHeading(c, original_pos,
                         Later(s1.log, _focus_view_box_from_heading(s1.d, env)), env)

\* _focus_hash_placeholder
_focus_hash_placeholder(c, d, env) ==
    HashSearched(c, _capture_cursor_pos(d, env),
                 _repeat_find_retry(d, Candidates, 6, <<0, 1, 2>>, env), env)

\* focus_placeholder("###")
focus_placeholder(conn, c, d, env) ==
    IF ~conn THEN [out |-> NotConnected(c), d |-> d]
    ELSE _focus_hash_placeholder(c, d, env)

----------------------------------------------------------------------------
(* History.                                                                 *)

\* the threads of SpecThreads, and what one of them is at: pc is the
\* statement of insert_text it executes next ("idle" outside a call, "done"
\* after it), text and skip are its locals text and skip_auto_indent_right
Threads == {1, 2}

IdleThread == [pc |-> "idle", text |-> <<>>, skip |-> FALSE]

\* no thread has made a call: run is what each thread is at, overlap says
\* that a call began while another was in progress, log holds the commands
\* the calls sent, in order, ctx0 is the context before the first call and
\* order the threads in the order their calls began
NoThreads ==
    [run |-> [t \in Threads |-> IdleThread], overlap |-> FALSE, log |-> <<>>,
     ctx0 |-> InitCtx, order |-> <<>>, pads |-> 0]

NoCall ==
    [op |-> "none", arg |-> <<>>, env |-> EnvUp, res |-> "ok", why |-> "",
     log |-> <<>>, used |-> {}, pre |-> InitCtx, doc0 |-> NoDoc]

Idle == last = NoCall

\* the kind of a call, for the properties about the call that follows it
Kind(op, arg, o) ==
    CASE o.res # "ok" -> "other"
      [] op = "insert_equation" -> "equation"
      [] op = "insert_enter" /\ o.pre.in_condition_box -> "box_enter"
      [] op = "insert_text" /\ StartsWithLetter(arg) -> "letter_text"
      [] OTHER -> "other"

\* The history the properties speak of.  While a call is in `last`, hist is
\* the history before that call; Return folds the call into it.
InitHist ==
    [ lastkind |-> "other",       \* the kind of the most recent call
      right_since_arm |-> 0,      \* right-align commands sent since right was last armed
      box |-> "none",             \* the first line of the box insert_box opened: "await"
                                  \*   until a text not starting with a space is typed,
                                  \*   then "typed"; "none" once the line is left
      boxeff |-> "none" ]         \* the same, for the text left by the equation-space rule

RightCmds(log) == Cardinality(Sent(log, "ParagraphShapeAlignRight"))

BoxPhase(phase, l, text) ==
    CASE l.op = "insert_box" ->
            IF l.res = "ok" THEN "await" ELSE "none"
      [] l.op = "insert_text" ->
            IF l.res # "ok" THEN "none"
            ELSE IF l.arg # <<>> /\ phase = "await" /\ ~StartsWith(text, <<SP>>)
            THEN "typed" ELSE phase
      [] l.op \in {"insert_equation", "connect", "set_align_right_next_line",
                   "set_align_justify_next_line"} -> phase
      [] OTHER -> "none"

Fold(h, l) ==
    [ lastkind |-> Kind(l.op, l.arg, l),
      right_since_arm |->
          IF l.op = "set_align_right_next_line" THEN 0
          ELSE Min(2, h.right_since_arm + RightCmds(l.log)),
      box |-> BoxPhase(h.box, l, l.arg),
      boxeff |-> BoxPhase(h.boxeff, l,
                          IF l.op = "insert_text"
                          THEN StripAfterEquation(l.pre, NormalizeTab(l.arg))
                          ELSE <<>>) ]

\* the most faults (classes of transport calls that misbehave) during one call
MaxFaults == 2

Faults(env) == Cardinality({ f \in DOMAIN EnvUp : env[f] # EnvUp[f] })

EnvsFor(U) == { e \in EnvsOver(U) : Faults(e) <= MaxFaults }

\* the call op(arg) ends with outcome o
Record(op, arg, env, o) ==
    /\ ctx' = o.ctx
    /\ last' = [op |-> op, arg |-> arg, env |-> env, res |-> o.res, why |-> o.why,
                log |-> o.log, used |-> o.used, pre |-> ctx, doc0 |-> doc]
    /\ UNCHANGED <<hist, th>>

\* the call op(arg) ends with outcome o under the transport behaviour env,
\* which differs from EnvUp only where the call could tell
Call(op, arg, env, o) ==
    /\ Canonical(env, o.used)
    /\ Record(op, arg, env, o)

----------------------------------------------------------------------------
(* Windows.  A window is named by its title; the foreground window of the   *)
(* desktop is one of them, or none.  The platform is Windows (IS_WINDOWS).  *)

NoWin == ""
OtherWin == "other"
HwpWins == { "a.hwp", "b.hwp" }
Wins == { NoWin, OtherWin } \cup HwpWins

\* self._is_hwp_title(title)
_is_hwp_title(title) == title \in HwpWins

\* How the desktop behaves during one call:
\*   cap    GetForegroundWindow answers when the scope is entered
\*   how    what attaching to the application comes to
\*   steal  the window the attach brings to the front (NoWin: none)
\*   peek   GetForegroundWindow answers inside _try_activate_current_window
\*   count  XHwpWindows and its Count can be read
\*   act    the first of SetActive, Activate, setActive that works (0: none)
\*   lift   a window made active also comes to the front
\*   rest   the restoring of the foreground when the scope is left
Hows == { "attached", "opened", "reopened", "noimport", "failed", "nowindow" }

Desks ==
    [ cap : BOOLEAN, how : Hows, steal : {NoWin} \cup HwpWins, peek : BOOLEAN,
      count : BOOLEAN, act : 0..3, lift : BOOLEAN, rest : {"ok", "getfail", "setfail"} ]

\* the desktops on which nothing fails and nothing moves the foreground
QuietDesks ==
    { d \in Desks : /\ d.cap /\ d.peek /\ d.count /\ ~d.lift
                    /\ d.how \in {"attached", "failed"}
                    /\ d.steal = NoWin /\ d.act = 1 /\ d.rest = "ok" }

\* what a window operation leaves: its outcome, the session, the foreground
Desk(o, conn, f) == [out |-> o, hwp |-> conn, fg |-> f]

\* w, having then sent cmds
Sends(w, cmds) == [w EXCEPT !.out.log = @ \o cmds]

\* _activate_hwp_win(win): True when one of the three methods worked
_activate_hwp_win(w, win, desk) ==
    [ Sends(w, << Cmd("SetActive", <<win>>, desk.act) >>)
      EXCEPT !.out.val = desk.act # 0,
             !.fg = IF desk.act # 0 /\ desk.lift THEN win ELSE @ ]

\* _try_activate_current_window(): makes the document of the foreground
\* window the active one
_try_activate_current_window(w, desk) ==
    IF ~desk.peek
    THEN Sends(w, << Cmd("GetForegroundWindow", <<>>, 0) >>)
    ELSE IF ~_is_hwp_title(w.fg) \/ ~w.hwp \/ ~desk.count
    THEN Sends(w, << Cmd("GetForegroundWindow", <<w.fg>>, 1) >>)
    ELSE [ _activate_hwp_win(Sends(w, << Cmd("GetForegroundWindow", <<w.fg>>, 1) >>),
                             w.fg, desk)
           EXCEPT !.out.val = TRUE ]

\* a scope that puts the captured window back only when its body returned
RestoreForegroundOnSuccess(prev, w, desk) ==
    IF prev = NoWin \/ w.out.res # "ok" THEN w
    ELSE IF desk.rest = "getfail"
    THEN Sends(w, << Cmd("GetForegroundWindow", <<>>, 0) >>)
    ELSE IF w.fg = prev
    THEN Sends(w, << Cmd("GetForegroundWindow", <<w.fg>>, 1) >>)
    ELSE IF desk.rest = "setfail"
    THEN Sends(w, << Cmd("GetForegroundWindow", <<w.fg>>, 1),
                     Cmd("SetForegroundWindow", <<prev>>, 0) >>)
    ELSE [ Sends(w, << Cmd("GetForegroundWindow", <<w.fg>>, 1),
                       Cmd("SetForegroundWindow", <<prev>>, 1) >>)
           EXCEPT !.fg = prev ]

\* the end of the scope of _preserve_foreground(): prev is the window
\* captured on entry, w what the body left
RestoreForeground(prev, w, desk) ==
    IF prev = NoWin THEN w
    ELSE IF desk.rest = "getfail"
    THEN Sends(w, << Cmd("GetForegroundWindow", <<>>, 0) >>)
    ELSE IF w.fg = prev
    THEN Sends(w, << Cmd("GetForegroundWindow", <<w.fg>>, 1) >>)
    ELSE IF desk.rest = "setfail"
    THEN Sends(w, << Cmd("GetForegroundWindow", <<w.fg>>, 1),
                     Cmd("SetForegroundWindow", <<prev>>, 0) >>)
    ELSE [ Sends(w, << Cmd("GetForegroundWindow", <<w.fg>>, 1),
                       Cmd("SetForegroundWindow", <<prev>>, 1) >>)
           EXCEPT !.fg = prev ]

\* the window _preserve_foreground() captures when the foreground is f
Captured(f, desk) == IF desk.cap THEN f ELSE NoWin

\* with _preserve_foreground(): body -- w is what the body left, having
\* started with the foreground f
_preserve_foreground(f, w, desk) ==
    [ RestoreForeground(Captured(f, desk), w, desk)
      EXCEPT !.out.log =
          << Cmd("GetForegroundWindow", <<Captured(f, desk)>>, IF desk.cap THEN 1 ELSE 0) >>
          \o @ ]

\* the window in front once the attach has run
Stolen(f, desk) == IF desk.steal = NoWin THEN f ELSE desk.steal

\* the body of the scope of connect()
ConnectBody(c, f, desk) ==
    CASE desk.how = "noimport" ->
            Desk(Out(c, "raw", "ImportError", <<>>, {}), FALSE, Stolen(f, desk))
      [] desk.how = "failed" ->
            Desk(Out(c, "error", "AutomationFailure", <<>>, {}), FALSE, Stolen(f, desk))
      [] OTHER ->
            _try_activate_current_window(Desk(Quiet(c), TRUE, Stolen(f, desk)), desk)

\* a connect() that attaches again on a controller that has a session
connect_attaches_again(conn, c, f, desk) ==
    IF desk.how = "nowindow"
    THEN Desk(Out(c, "error", "AutomationFailure", <<>>, {}), FALSE, f)
    ELSE _preserve_foreground(f, ConnectBody(c, f, desk), desk)

\* connect(): nothing is done on a controller that has a session
connect(conn, c, f, desk) ==
    IF conn THEN Desk(Quiet(c), TRUE, f)
    ELSE IF desk.how = "nowindow"
    THEN Desk(Out(c, "error", "AutomationFailure", <<>>, {}), FALSE, f)
    ELSE _preserve_foreground(f, ConnectBody(c, f, desk), desk)

\* the documents activate_target_window is asked for: none, one that is
\* open, one that is not
Targets == { "", "a.hwp", "b.hwp", "c.hwp" }

\* the body of the scope of activate_target_window()
ActivateBody(w, target, desk) ==
    IF target = "" \/ ~w.hwp \/ ~desk.count \/ target \notin HwpWins
    THEN _try_activate_current_window(w, desk)
    ELSE IF desk.act # 0 THEN _activate_hwp_win(w, target, desk)
    ELSE _try_activate_current_window(_activate_hwp_win(w, target, desk), desk)

activate_target_window(conn, c, f, target, desk) ==
    _preserve_foreground(f, ActivateBody(Desk(Quiet(c), conn, f), target, desk), desk)

----------------------------------------------------------------------------
(* Actions: one per public operation, and the return to the caller.         *)

Init ==
    /\ hwp = FALSE
    /\ ctx = InitCtx
    /\ doc = NoDoc
    /\ fg = OtherWin
    /\ last = NoCall
    /\ hist = InitHist
    /\ th = NoThreads

\* the call op(arg) ends with w: its outcome, the session and the foreground
Shown(op, arg, w) ==
    /\ hwp' = w.hwp
    /\ fg' = w.fg
    /\ Record(op, arg, EnvUp, w.out)

\* connect() on a desktop that behaves as one of Ds
ConnectOver(Ds) ==
    /\ Idle
    /\ \E desk \in Ds : Shown("connect", <<>>, connect(hwp, ctx, fg, desk))
    /\ UNCHANGED doc

\* connect(): attaches to the running application, or raises; nothing moves
\* the foreground window meanwhile
Connect == ConnectOver(QuietDesks)

SetAlignRightNextLine ==
    /\ Idle
    /\ Record("set_align_right_next_line", <<>>, EnvUp,
              Quiet([ctx EXCEPT !.align_right_next_line = TRUE]))
    /\ UNCHANGED <<hwp, doc, fg>>

SetAlignJustifyNextLine ==
    /\ Idle
    /\ Record("set_align_justify_next_line", <<>>, EnvUp,
              Quiet([ctx EXCEPT !.align_justify_next_line = TRUE]))
    /\ UNCHANGED <<hwp, doc, fg>>

\* insert_text(text), the text drawn from the given set
InsertTextOver(S) ==
    /\ Idle
    /\ \E text \in S, env \in EnvsFor({"brk", "align", "ins"}) :
          Call("insert_text", text, env,
               insert_text(hwp, ctx, text, env))
    /\ UNCHANGED <<hwp, doc, fg>>

InsertText == InsertTextOver(Texts)

InsertEnter ==
    /\ Idle
    /\ \E env \in EnvsFor({"brk", "align"}) :
          Call("insert_enter", <<>>, env,
               insert_enter(hwp, ctx, env))
    /\ UNCHANGED <<hwp, doc, fg>>

InsertEquation ==
    /\ Idle
    /\ \E hwpeqn \in EqTexts, env \in EnvsFor({"brk", "align", "ins", "eq"}) :
          Call("insert_equation", hwpeqn, env,
               insert_equation(hwp, ctx, hwpeqn, env))
    /\ UNCHANGED <<hwp, doc, fg>>

InsertBox ==
    /\ Idle
    /\ \E env \in EnvsFor({"tmpl", "cell", "create", "ins"}) :
          Call("insert_box", <<>>, env,
               insert_box(hwp, ctx, env))
    /\ UNCHANGED <<hwp, doc, fg>>

InsertViewBox ==
    /\ Idle
    /\ \E env \in EnvsFor({"tmpl", "cell", "create", "ins", "brk", "align"}) :
          Call("insert_view_box", <<>>, env,
               insert_view_box(hwp, ctx, env))
    /\ UNCHANGED <<hwp, doc, fg>>

\* insert_table(rows, cols, cell_data, exit_after=...), the arguments drawn
\* from the given sets
InsertTableOver(Dims, Datas) ==
    /\ Idle
    /\ \E rows \in Dims, cols \in Dims, cell_data \in Datas, exit_after \in BOOLEAN,
          env \in EnvsFor({"ins", "create", "eq", "nav", "exit", "align"}) :
          Call("insert_table",
               [rows |-> rows, cols |-> cols, cell_data |-> cell_data,
               align_center |-> FALSE, exit_after |-> exit_after], env,
               insert_table(hwp, ctx, rows, cols, cell_data, FALSE, exit_after, env))
    /\ UNCHANGED <<hwp, doc, fg>>

\* an empty table of at most one row and one column
InsertTable == InsertTableOver(0..1, {NoData})

ExitBox ==
    /\ Idle
    /\ \E env \in EnvsFor({"exit"}) :
          Call("exit_box", <<>>, env,
               exit_box(hwp, ctx, env))
    /\ UNCHANGED <<hwp, doc, fg>>

ExitTable ==
    /\ Idle
    /\ \E env \in EnvsFor({"exit"}) :
          Call("exit_table", <<>>, env,
               exit_table(hwp, ctx, env))
    /\ UNCHANGED <<hwp, doc, fg>>

\* the call has ended: the caller is free to make the next one
Return ==
    /\ ~Idle
    /\ last' = NoCall
    /\ hist' = Fold(hist, last)
    /\ UNCHANGED <<hwp, ctx, doc, fg, th>>

Next ==
    \/ Connect
    \/ SetAlignRightNextLine
    \/ SetAlignJustifyNextLine
    \/ InsertText
    \/ InsertEnter
    \/ InsertEquation
    \/ InsertBox
    \/ InsertViewBox
    \/ InsertTable
    \/ ExitBox
    \/ ExitTable
    \/ Return

Spec == Init /\ [][Next]_vars

----------------------------------------------------------------------------
(* The same controller with tables of every size up to MaxDim filled from   *)
(* cell_data, and one word as the only text typed between them.             *)

InsertWord == InsertTextOver({ <<"t">> })

InsertTableFilled == InsertTableOver(0..MaxDim, CellDatas)

NextTable ==
    \/ Connect
    \/ SetAlignRightNextLine
    \/ InsertWord
    \/ InsertBox
    \/ InsertTableFilled
    \/ Return

SpecTable == Init /\ [][NextTable]_vars

----------------------------------------------------------------------------
(* The placeholder locator on every document of at most DocLen paragraphs.  *)

\* the most paragraphs in a document
DocLen == 2

\* the marker as a document may hold it: plain, full-width, spaced,
\* full-width spaced
MarkerVariants == { "###", "%%%", "# # #", "% % %" }

LineKinds ==
    { Line("", FALSE), Line("<V>", FALSE), Line("", TRUE) }
    \cup { Line(m, t) : m \in MarkerVariants, t \in BOOLEAN }

Docs ==
    UNION { { [lines |-> l, cur |-> k, sel |-> FALSE] : k \in DOMAIN l } :
            l \in UNION { [1..n -> LineKinds] : n \in 1..DocLen } }

InitFind ==
    /\ hwp = FALSE
    /\ ctx = InitCtx
    /\ doc \in Docs
    /\ fg = OtherWin
    /\ last = NoCall
    /\ hist = InitHist
    /\ th = NoThreads

\* the locator ends with o: the outcome of the call and the document
Focus(env, o) ==
    /\ Record("focus_placeholder", "###", env, o.out)
    /\ doc' = o.d

FocusPlaceholder ==
    /\ Idle
    /\ \E env \in EnvsFor({"getpos", "setpos", "find", "run", "down", "del", "cell"}) :
          /\ ~hwp => env = EnvUp
          /\ Focus(env, focus_placeholder(hwp, ctx, doc, env))
    /\ UNCHANGED <<hwp, fg>>

NextFind ==
    \/ Connect
    \/ FocusPlaceholder
    \/ Return

SpecFind == InitFind /\ [][NextFind]_vars

----------------------------------------------------------------------------
(* The controller on a desktop whose windows move: connect() and            *)
(* activate_target_window() with every behaviour of the desktop.            *)

InitWindow ==
    /\ hwp = FALSE
    /\ ctx = InitCtx
    /\ doc = NoDoc
    /\ fg \in Wins
    /\ last = NoCall
    /\ hist = InitHist
    /\ th = NoThreads

ConnectWindow == ConnectOver(Desks)

ActivateTargetWindow ==
    /\ Idle
    /\ \E target \in Targets, desk \in Desks :
          /\ desk.how = "attached" /\ desk.steal = NoWin
          /\ Shown("activate_target_window", target,
                   activate_target_window(hwp, ctx, fg, target, desk))
    /\ UNCHANGED doc

NextWindow ==
    \/ ConnectWindow
    \/ ActivateTargetWindow
    \/ Return

SpecWindow == InitWindow /\ [][NextWindow]_vars

----------------------------------------------------------------------------
(* The command cascades, strategy by strategy.  Above, a cascade is one     *)
(* command of the log with the strategy that carried it out; here every     *)
(* attempt is listed, against a transport that answers each call shape of   *)
(* each action on its own.                                                  *)

\* the call shapes of a named action, in the order the code tries them
Shapes == << "HAction.Run", "Run" >>

\* one attempt: the call shape, the action, whether it was carried out
Try(how, action_name, ok) == [how |-> how, cmd |-> action_name, ok |-> ok]

\* the call shapes from the k-th on, each tried whatever the one before did
RECURSIVE RunFromAll(_, _, _, _)
RunFromAll(d, action_name, works, k) ==
    IF k > Len(Shapes) THEN Loc(d, FALSE, <<>>)
    ELSE IF works[Shapes[k]]
    THEN [Later(<< Try(Shapes[k], action_name, TRUE) >>,
                RunFromAll(Effect(d, action_name), action_name, works, k + 1))
            EXCEPT !.val = TRUE]
    ELSE Later(<< Try(Shapes[k], action_name, FALSE) >>,
               RunFromAll(d, action_name, works, k + 1))

\* _run_action_best_effort, lines 1104-1113: the call shapes from the k-th
\* on, until one does not raise
RECURSIVE RunFrom(_, _, _, _)
RunFrom(d, action_name, works, k) ==
    IF k > Len(Shapes) THEN Loc(d, FALSE, <<>>)
    ELSE IF works[Shapes[k]]
    THEN Loc(Effect(d, action_name), TRUE, << Try(Shapes[k], action_name, TRUE) >>)
    ELSE Later(<< Try(Shapes[k], action_name, FALSE) >>,
               RunFrom(d, action_name, works, k + 1))

\* _run_action_best_effort: without a session it raises before any attempt
RunStrategies(conn, d, action_name, works) ==
    IF ~conn THEN [Loc(d, FALSE, <<>>) EXCEPT !.res = "error"]
    ELSE RunFrom(d, action_name, works, 1)

\* _set_paragraph_align: the second shape inside the handler of the first;
\* each attempt looks the session up itself and fails without one; val is
\* whether the paragraph was aligned, which the caller is not told
AlignStrategies(conn, d, align, works) ==
    IF conn /\ works[Shapes[1]]
    THEN Loc(d, TRUE, << Try(Shapes[1], AlignCmd(align), TRUE) >>)
    ELSE Later(<< Try(Shapes[1], AlignCmd(align), FALSE) >>,
               Loc(d, conn /\ works[Shapes[2]],
                   << Try(Shapes[2], AlignCmd(align), conn /\ works[Shapes[2]]) >>))

\* `if a: return` followed by b; an exception of a ends the cascade
ElseRun(a, b) == IF a.res # "ok" \/ a.val THEN a ELSE Later(a.log, b)

\* _delete_found_marker: Delete, then DeleteBack, then the insertion of an
\* empty text, which sends nothing; val is whether the marker was deleted,
\* which the caller is not told
DeleteStrategies(conn, d, works) ==
    ElseRun(RunStrategies(conn, d, "Delete", works["Delete"]),
            RunStrategies(conn, d, "DeleteBack", works["DeleteBack"]))

\* the answers of the transport to the call shapes of one action
Transports == [ { Shapes[k] : k \in DOMAIN Shapes } -> BOOLEAN ]

\* the actions the controller runs best-effort
RunNames ==
    { "Cancel", "Delete", "DeleteBack", "MoveDown", "MoveDocBegin", "MoveTop",
      "MoveBegin" }

Aligns == { "right", "center", "justify", "left" }

\* the documents of Docs, with the text under the cursor selected or not
Selections == { [d EXCEPT !.sel = sel] : d \in Docs, sel \in BOOLEAN }

InitCascade ==
    /\ hwp = FALSE
    /\ ctx = InitCtx
    /\ doc \in Selections
    /\ fg = OtherWin
    /\ last = NoCall
    /\ hist = InitHist
    /\ th = NoThreads

\* the cascade op(arg) ends with r against the transport works; said is
\* what it tells its caller: "True", "False", "None" or "raise"
Cascaded(op, arg, works, r, said) ==
    /\ last' = [op |-> op, arg |-> arg, env |-> works, res |-> r.res,
                why |-> IF r.res = "ok" THEN "" ELSE "NotConnected",
                log |-> r.log, used |-> {}, pre |-> ctx, doc0 |-> doc,
                said |-> IF r.res # "ok" THEN "raise" ELSE said]
    /\ doc' = r.d
    /\ UNCHANGED <<hwp, ctx, fg, hist, th>>

Answer(r) == IF r.val THEN "True" ELSE "False"

RunActionBestEffort ==
    /\ Idle
    /\ \E action_name \in RunNames, works \in Transports :
          Cascaded("_run_action_best_effort", action_name, works,
                   RunStrategies(hwp, doc, action_name, works),
                   Answer(RunStrategies(hwp, doc, action_name, works)))

SetParagraphAlign ==
    /\ Idle
    /\ \E align \in Aligns, works \in Transports :
          Cascaded("_set_paragraph_align", align, works,
                   AlignStrategies(hwp, doc, align, works), "None")

DeleteFoundMarker ==
    /\ Idle
    /\ \E works \in [ {"Delete", "DeleteBack"} -> Transports ] :
          Cascaded("_delete_found_marker", <<>>, works,
                   DeleteStrategies(hwp, doc, works), "None")

NextCascade ==
    \/ Connect
    \/ RunActionBestEffort
    \/ SetParagraphAlign
    \/ DeleteFoundMarker
    \/ Return

SpecCascade == InitCascade /\ [][NextCascade]_vars

----------------------------------------------------------------------------
(* The other markers: focus_placeholder("@@@"), focus_placeholder("&&&")    *)
(* and the cleanup of the placeholder a template leaves behind.  "AAA" and  *)
(* "NNN" stand for the full-width spellings of "@@@" and "&&&".             *)

Markers == { "@@@", "###", "&&&" }

Spellings(marker) ==
    CASE marker = "@@@" -> << "@@@", "AAA", "@ @ @", "A A A" >>
      [] marker = "&&&" -> << "&&&", "NNN", "& & &", "N N N" >>
      [] OTHER          -> << marker >>

\* focus_placeholder, lines 1246-1251: the candidates of a marker
FocusCandidates(marker) == Spellings(marker)

\* _cleanup_template_placeholder, lines 1031-1033
CleanupCandidates(marker) ==
    IF marker = "&&&" THEN Spellings(marker) ELSE << marker >>

\* focus_placeholder, lines 1263-1268: after the last search f
FocusFound(c, original_pos, f, env) ==
    IF f.res # "ok" THEN Located(c, f)
    ELSE IF f.val THEN Located(c, Later(f.log, _delete_found_marker(f.d, env)))
    ELSE Located(c, Later(f.log, _restore_cursor_pos(f.d, original_pos, env)))

\* focus_placeholder, lines 1260-1262: the search from the start of the
\* document, where the cursor was moved
FocusFromTop(c, marker, original_pos, top, env) ==
    FocusFound(c, original_pos,
               Later(top.log,
                     _repeat_find_retry(top.d, FocusCandidates(marker), 6, <<0>>, env)),
               env)

\* focus_placeholder, lines 1254-1268: after the first search f1
FocusSearched(c, marker, original_pos, f1, env) ==
    IF f1.res # "ok" THEN Located(c, f1)
    ELSE IF f1.val THEN Located(c, Later(f1.log, _delete_found_marker(f1.d, env)))
    ELSE IF marker = "&&&" \/ original_pos = 0 THEN Located(c, f1)
    ELSE FocusFromTop(c, marker, original_pos,
                      Later(f1.log, _move_doc_start(f1.d, env)), env)

\* focus_placeholder(marker), for a marker other than "###"
focus_marker(conn, c, d, marker, env) ==
    IF ~conn THEN [out |-> NotConnected(c), d |-> d]
    ELSE FocusSearched(c, marker, _capture_cursor_pos(d, env),
                       _repeat_find_retry(d, FocusCandidates(marker), 6, <<0, 1>>, env),
                       env)

\* `if found: self._run_action_best_effort("Delete")`
DeleteIfFound(f, env) ==
    IF f.val THEN Later(f.log, _run_action_best_effort(f.d, "Delete", env)) ELSE f

\* _cleanup_template_placeholder, lines 1038-1041: no position was captured
CleanupNearby(c, f, env) ==
    IF f.res # "ok" THEN Located(c, f) ELSE Located(c, DeleteIfFound(f, env))

\* _cleanup_template_placeholder, lines 1044-1050: after the search f from
\* the start of the document
CleanupFromTop(c, saved_pos, f, env) ==
    IF f.res # "ok" THEN Located(c, f)
    ELSE Located(c, Later(DeleteIfFound(f, env).log,
                          _restore_cursor_pos(DeleteIfFound(f, env).d, saved_pos, env)))

\* _cleanup_template_placeholder, lines 1035-1050: after the capture
CleanupCaptured(c, d, marker, saved_pos, env) ==
    IF saved_pos = 0
    THEN CleanupNearby(c, _repeat_find_retry(d, CleanupCandidates(marker), 3, <<0, 1>>,
                                             env), env)
    ELSE CleanupFromTop(c, saved_pos,
                        Later(_move_doc_start(d, env).log,
                              _repeat_find_retry(_move_doc_start(d, env).d,
                                                 CleanupCandidates(marker), 6, <<0>>, env)),
                        env)

\* _cleanup_template_placeholder
_cleanup_template_placeholder(conn, c, d, marker, env) ==
    IF ~conn THEN [out |-> NotConnected(c), d |-> d]
    ELSE CleanupCaptured(c, d, marker, _capture_cursor_pos(d, env), env)

MarkerLineKinds ==
    { Line("", FALSE), Line("", TRUE), Line("###", FALSE), Line("###", TRUE) }
    \cup { Line(Spellings(m)[k], t) : m \in {"@@@", "&&&"}, k \in 1..4, t \in BOOLEAN }

MarkerDocs ==
    UNION { { [lines |-> l, cur |-> k, sel |-> FALSE] : k \in DOMAIN l } :
            l \in UNION { [1..n -> MarkerLineKinds] : n \in 1..DocLen } }

InitMarker ==
    /\ hwp = FALSE
    /\ ctx = InitCtx
    /\ doc \in MarkerDocs
    /\ fg = OtherWin
    /\ last = NoCall
    /\ hist = InitHist
    /\ th = NoThreads

\* the call op(marker) ends with o: the outcome of the call and the document
Marked(op, marker, env, o) ==
    /\ Record(op, marker, env, o.out)
    /\ doc' = o.d

FocusMarker ==
    /\ Idle
    /\ \E marker \in {"@@@", "&&&"},
          env \in EnvsFor({"getpos", "setpos", "find", "run", "del"}) :
          /\ ~hwp => env = EnvUp
          /\ Marked("focus_placeholder", marker, env,
                    focus_marker(hwp, ctx, doc, marker, env))
    /\ UNCHANGED <<hwp, fg>>

CleanupTemplatePlaceholder ==
    /\ Idle
    /\ \E marker \in Markers,
          env \in EnvsFor({"getpos", "setpos", "find", "run", "del"}) :
          /\ ~hwp => env = EnvUp
          /\ Marked("_cleanup_template_placeholder", marker, env,
                    _cleanup_template_placeholder(hwp, ctx, doc, marker, env))
    /\ UNCHANGED <<hwp, fg>>

NextMarker ==
    \/ Connect
    \/ FocusMarker
    \/ CleanupTemplatePlaceholder
    \/ Return

SpecMarker == InitMarker /\ [][NextMarker]_vars

----------------------------------------------------------------------------
(* The retry loops with their waits.  Above, _repeat_find_retry is the      *)
(* sequence of its searches; here the log also holds a "sleep" for every    *)
(* time.sleep, and the two loops are called on their own with candidates,   *)
(* attempts and directions of every shape.                                  *)

Sleep == Cmd("sleep", <<>>, 1)

\* a wait after every round, the last one included
SleptEveryRound(r, i, attempts) ==
    IF r.res = "ok" /\ ~r.val THEN [r EXCEPT !.log = @ \o << Sleep >>] ELSE r

\* _repeat_find_retry, lines 1193-1194: the wait after round i, which is
\* reached when no search of the round hit or raised
Slept(r, i, attempts) ==
    IF r.res = "ok" /\ ~r.val /\ i < attempts - 1
    THEN [r EXCEPT !.log = @ \o << Sleep >>]
    ELSE r

\* _repeat_find_retry, lines 1188-1195: the rounds from round i on
RECURSIVE RetryFrom(_, _, _, _, _, _)
RetryFrom(r, candidates, attempts, directions, i, env) ==
    IF r.res # "ok" \/ r.val \/ i >= Max(1, attempts) THEN r
    ELSE RetryFrom(Slept(FindRound(r, candidates, directions, 0, env), i, attempts),
                   candidates, attempts, directions, i + 1, env)

\* _repeat_find_retry, with its waits
RetryWithWaits(d, candidates, attempts, directions, env) ==
    RetryFrom(Loc(d, FALSE, <<>>), candidates, attempts, directions, 0, env)

\* the most attempts asked for
MaxAttempts == 3

CandidateLists == { <<>>, << "###" >>, << "###", "%%%" >>, << "<V>", "# # #" >> }

DirectionLists == { <<>>, << 0 >>, << 0, 1 >>, << 1, 2 >> }

\* the loop op(arg) ends with r; said is what it returns
Looped(op, arg, env, r) ==
    /\ last' = [op |-> op, arg |-> arg, env |-> env, res |-> r.res,
                why |-> IF r.res = "ok" THEN "" ELSE "AutomationFailure",
                log |-> r.log, used |-> {}, pre |-> ctx, doc0 |-> doc,
                said |-> IF r.res # "ok" THEN "raise" ELSE Answer(r)]
    /\ doc' = r.d
    /\ UNCHANGED <<hwp, ctx, fg, hist, th>>

RepeatFindRetry ==
    /\ Idle /\ hwp
    /\ \E candidates \in CandidateLists, attempts \in (-1)..MaxAttempts,
          directions \in DirectionLists, env \in EnvsFor({"find"}) :
          Looped("_repeat_find_retry",
                 [candidates |-> candidates, attempts |-> attempts,
                  directions |-> directions],
                 env, RetryWithWaits(doc, candidates, attempts, directions, env))

NavigateForwardIntoTable ==
    /\ Idle /\ hwp
    /\ \E env \in EnvsFor({"down", "cell"}) :
          Looped("_navigate_forward_into_table", <<>>, env,
                 _navigate_forward_into_table(doc, env))

NextRetry ==
    \/ Connect
    \/ RepeatFindRetry
    \/ NavigateForwardIntoTable
    \/ Return

SpecRetry == InitFind /\ [][NextRetry]_vars

----------------------------------------------------------------------------
(* Images.  A picture goes into a 1x1 table of its own.  The transport      *)
(* answers the calls of one insertion as a record:                          *)
(*   create : TableCreate creates the table ("ok"), returns False without   *)
(*            creating it ("refused") or raises ("raise")                   *)
(*   margin, border : the cell border-fill action works                     *)
(*   align  : the strategy that aligns the paragraph (0 neither)            *)
(*   pic    : the first way of inserting the picture that works, in the     *)
(*            order of PictureWays (0: none)                                *)
(*   char   : some way of marking the picture as a character works          *)
(*   exit   : the strategy of the exit that works (1 CloseEx and MoveDown,  *)
(*            2 TableLowerCell first, 0 neither)                            *)

Shots ==
    [ create : {"ok", "refused", "raise"}, margin : BOOLEAN, border : BOOLEAN,
      align : 0..2, pic : 0..5, char : BOOLEAN, exit : 0..2 ]

\* _raw_insert_picture: the ways tried, in order
PictureWays ==
    << "HInsertPicture", "HPicture", "hwp.InsertPicture", "hwp.insert_picture", "Run" >>

Via(ok) == IF ok THEN 1 ELSE 0

\* _raw_insert_picture, lines 1853-1887: the ways from the k-th on
RECURSIVE PictureFrom(_, _)
PictureFrom(shot, k) ==
    IF k > Len(PictureWays) THEN <<>>
    ELSE IF shot.pic = k THEN << Cmd("InsertPicture", PictureWays[k], 1) >>
    ELSE << Cmd("InsertPicture", PictureWays[k], 0) >> \o PictureFrom(shot, k + 1)

\* _try_set_treat_as_char, as one command, and its closing Cancel
_try_set_treat_as_char(shot) ==
    << Cmd("ShapeObjDialog", <<>>, Via(shot.char)), Cmd("Cancel", <<>>, 1) >>

\* _exit_table_after_image: every failure swallowed
_exit_table_after_image(shot) ==
    CASE shot.exit = 1 ->
            << Cmd("CloseEx", <<>>, 1), Cmd("MoveDown", <<>>, 1) >>
      [] shot.exit = 2 ->
            << Cmd("CloseEx", <<>>, 0), Cmd("TableLowerCell", <<>>, 1),
               Cmd("CloseEx", <<>>, 1), Cmd("MoveDown", <<>>, 1) >>
      [] OTHER ->
            << Cmd("CloseEx", <<>>, 0), Cmd("TableLowerCell", <<>>, 0) >>

\* _insert_1x1_table, lines 1778-1804, and _set_current_table_border_none:
\* the margins and the borders of the cell, best-effort
CellDressing(shot) ==
    << Cmd("TableCellBorderFill", "margin", Via(shot.margin)),
       Cmd("TableCellBorderFill", "border", Via(shot.border)) >>

\* _raw_insert_picture and, when it returns, _exit_table_after_image
\* (lines 1757-1758 and 2015-2018)
PictureInTable(c, shot) ==
    IF shot.pic = 0
    THEN Out(c, "error", "AutomationFailure", PictureFrom(shot, 1), {})
    ELSE Out(c, "ok", "",
             PictureFrom(shot, 1) \o _try_set_treat_as_char(shot)
                \o _exit_table_after_image(shot), {})

\* lines 1751-1758 and 2005-2018: the table, its dressing, the centring of
\* the cell, the picture, the exit
ImageInTable(conn, c, shot) ==
    IF ~conn THEN NotConnected(c)
    ELSE IF shot.create = "raise"
    THEN Out(c, "raw", "Transport", << Cmd("TableCreate", <<1, 1>>, 0) >>, {})
    ELSE After(<< Cmd("TableCreate", <<1, 1>>, Via(shot.create = "ok")) >>
                  \o CellDressing(shot)
                  \o << Cmd(AlignCmd("center"), <<>>, shot.align) >>,
               {}, PictureInTable(c, shot))

\* what insert_cropped_image is given: no source image, no Pillow, a crop
\* rectangle without area, or a region it can crop
Crops == { "nosource", "nopillow", "degenerate", "region" }

\* insert_cropped_image
insert_cropped_image(conn, c, crop, shot) ==
    CASE crop \in {"nosource", "degenerate"} -> Out(c, "error", "InvalidArgument", <<>>, {})
      [] crop = "nopillow" -> Out(c, "error", "DependencyMissing", <<>>, {})
      [] OTHER -> ImageInTable(conn, c, shot)

\* _insert_picture: the resized copy is best-effort
_insert_picture(conn, c, shot) == ImageInTable(conn, c, shot)

\* a transport on which every call of an insertion works
ShotUp ==
    [create |-> "ok", margin |-> TRUE, border |-> TRUE, align |-> 1, pic |-> 1,
     char |-> TRUE, exit |-> 1]

InsertCroppedImage ==
    /\ Idle
    /\ \E crop \in Crops, shot \in Shots :
          /\ (~hwp \/ crop # "region") => shot = ShotUp
          /\ Record("insert_cropped_image", crop, shot,
                    insert_cropped_image(hwp, ctx, crop, shot))
    /\ UNCHANGED <<hwp, doc, fg>>

InsertPicture ==
    /\ Idle
    /\ \E shot \in Shots :
          /\ ~hwp => shot = ShotUp
          /\ Record("_insert_picture", <<>>, shot, _insert_picture(hwp, ctx, shot))
    /\ UNCHANGED <<hwp, doc, fg>>

NextImage ==
    \/ Connect
    \/ InsertCroppedImage
    \/ InsertPicture
    \/ Return

SpecImage == Init /\ [][NextImage]_vars

----------------------------------------------------------------------------
(* insert_paragraph(), among the calls that set up the contexts it meets:   *)
(* after an equation, with a right alignment pending, inside a box.         *)

\* insert_space
insert_space(conn, c, env) == insert_text(conn, c, << SP >>, env)

\* insert_paragraph, line 682: after insert_enter ended with e
SpaceAfterEnter(conn, e, env) ==
    IF e.res # "ok" THEN e ELSE After(e.log, e.used, insert_space(conn, e.ctx, env))

\* insert_paragraph
insert_paragraph(conn, c, env) == SpaceAfterEnter(conn, insert_enter(conn, c, env), env)

InsertParagraph ==
    /\ Idle
    /\ \E env \in EnvsFor({"brk", "align", "ins"}) :
          Call("insert_paragraph", <<>>, env, insert_paragraph(hwp, ctx, env))
    /\ UNCHANGED <<hwp, doc, fg>>

NextParagraph ==
    \/ Connect
    \/ SetAlignRightNextLine
    \/ InsertWord
    \/ InsertEquation
    \/ InsertBox
    \/ InsertParagraph
    \/ Return

SpecParagraph == Init /\ [][NextParagraph]_vars

----------------------------------------------------------------------------
(* Two threads in insert_text.  The controller has no lock: a call is the   *)
(* sequence of its statements, and the statements of two calls interleave   *)
(* in any order.  The texts start with no tab, so that lines 505-511 change *)
(* nothing, and the transport works.                                        *)

ThreadTexts == { << "t" >>, << SP, "t" >> }

Running(t) == th.run[t].pc \notin {"idle", "done"}

\* no call is in progress or finished: the other operations are made then
Quiesced == \A t \in Threads : th.run[t].pc = "idle"

\* insert_text, the conditions of lines 514, 519, 524-529 and 546: the
\* statement that follows the test at pc
Tested(pc, c, text) ==
    CASE pc = "right?" ->
            IF c.line_start /\ c.align_right_next_line THEN "right_cmd" ELSE "justify?"
      [] pc = "justify?" ->
            IF c.line_start /\ c.align_justify_next_line THEN "justify_cmd" ELSE "start?"
      [] pc = "start?" ->
            IF c.line_start /\ (StartsWith(text, << TAB >>) \/ StartsWith(text, << SP >>))
            THEN "start_clear" ELSE "strip"
      [] OTHER ->
            IF c.in_condition_box /\ c.box_line_start /\ ~StartsWith(text, << SP >>)
            THEN "box_pad" ELSE "raw"

\* the assignment of line 516 left out
WrittenKeepsRight(pc, c) ==
    CASE pc = "right_clear"   -> c
      [] pc = "right_mark"    -> [c EXCEPT !.line_right_aligned = TRUE]
      [] pc = "justify_clear" -> [c EXCEPT !.align_justify_next_line = FALSE]
      [] pc = "justify_mark"  -> [c EXCEPT !.line_justify_aligned = TRUE]
      [] pc = "start_clear"   -> [c EXCEPT !.line_start = FALSE]
      [] pc = "box_clear"     -> [c EXCEPT !.box_line_start = FALSE]
      [] pc = "line"          -> [c EXCEPT !.line_start = FALSE]
      [] pc = "eq_clear"      -> [c EXCEPT !.last_was_equation = FALSE]
      [] OTHER                -> [c EXCEPT !.first_line_written = TRUE]

\* insert_text, the assignments to the context (lines 516-518, 521-522,
\* 527, 530, 548, 550-553): the context after the one at pc
Written(pc, c) ==
    CASE pc = "right_clear"   -> [c EXCEPT !.align_right_next_line = FALSE]
      [] pc = "right_mark"    -> [c EXCEPT !.line_right_aligned = TRUE]
      [] pc = "justify_clear" -> [c EXCEPT !.align_justify_next_line = FALSE]
      [] pc = "justify_mark"  -> [c EXCEPT !.line_justify_aligned = TRUE]
      [] pc = "start_clear"   -> [c EXCEPT !.line_start = FALSE]
      [] pc = "box_clear"     -> [c EXCEPT !.box_line_start = FALSE]
      [] pc = "line"          -> [c EXCEPT !.line_start = FALSE]
      [] pc = "eq_clear"      -> [c EXCEPT !.last_was_equation = FALSE]
      [] OTHER                -> [c EXCEPT !.first_line_written = TRUE]

\* the statement after the assignment at pc
AfterWrite(pc) ==
    CASE pc = "right_clear"   -> "right_mark"
      [] pc = "right_mark"    -> "justify?"
      [] pc = "justify_clear" -> "justify_mark"
      [] pc = "justify_mark"  -> "start?"
      [] pc = "start_clear"   -> "strip"
      [] pc = "box_clear"     -> "raw"
      [] pc = "line"          -> "eq_clear"
      [] pc = "eq_clear"      -> "first"
      [] OTHER                -> "done"

\* insert_text, lines 541-547: the text after the statement at pc, which
\* changes the local text only
Reworked(pc, c, r) ==
    CASE pc = "strip" ->
            IF r.skip THEN LStripOf(r.text, {SP, TAB}) ELSE r.text
      [] pc = "equation?" ->
            IF c.last_was_equation /\ StartsWith(r.text, << SP >>)
            THEN Tail(r.text) ELSE r.text
      [] OTHER -> << SP >> \o r.text

AfterRework(pc) ==
    CASE pc = "strip"     -> "equation?"
      [] pc = "equation?" -> "box?"
      [] OTHER            -> "box_clear"

\* the command the statement at pc sends (lines 515, 520, 549); an empty
\* text sends nothing
Command(pc, text) ==
    CASE pc = "right_cmd"   -> << Cmd(AlignCmd("right"), <<>>, 1) >>
      [] pc = "justify_cmd" -> << Cmd(AlignCmd("justify"), <<>>, 1) >>
      [] OTHER              -> IF text = <<>> THEN <<>> ELSE << Cmd("InsertText", text, 1) >>

AfterCommand(pc) ==
    CASE pc = "right_cmd"   -> "right_clear"
      [] pc = "justify_cmd" -> "justify_clear"
      [] OTHER              -> "line"

\* a thread calls insert_text(text) on the connected controller
ThreadBegin ==
    /\ Idle /\ hwp
    /\ \E t \in Threads, text \in ThreadTexts :
          /\ th.run[t].pc = "idle"
          /\ th' = [th EXCEPT
                      !.run[t] = [pc |-> "right?", text |-> text, skip |-> FALSE],
                      !.overlap = @ \/ \E u \in Threads : Running(u),
                      !.ctx0 = IF th.order = <<>> THEN ctx ELSE @,
                      !.order = Append(@, <<t, text>>)]
    /\ UNCHANGED <<hwp, ctx, doc, fg, last, hist>>

ThreadTest ==
    /\ \E t \in Threads :
          /\ th.run[t].pc \in {"right?", "justify?", "start?", "box?"}
          /\ th' = [th EXCEPT !.run[t].pc = Tested(@, ctx, th.run[t].text)]
    /\ UNCHANGED <<hwp, ctx, doc, fg, last, hist>>

ThreadWrite ==
    /\ \E t \in Threads :
          /\ th.run[t].pc \in {"right_clear", "right_mark", "justify_clear",
                               "justify_mark", "start_clear", "box_clear", "line",
                               "eq_clear", "first"}
          /\ ctx' = Written(th.run[t].pc, ctx)
          /\ th' = [th EXCEPT !.run[t].pc = AfterWrite(@),
                              !.run[t].skip = @ \/ th.run[t].pc = "right_mark"]
    /\ UNCHANGED <<hwp, doc, fg, last, hist>>

ThreadRework ==
    /\ \E t \in Threads :
          /\ th.run[t].pc \in {"strip", "equation?", "box_pad"}
          /\ th' = [th EXCEPT !.run[t].text = Reworked(th.run[t].pc, ctx, th.run[t]),
                              !.run[t].pc = AfterRework(@),
                              !.pads = IF th.run[t].pc = "box_pad" THEN @ + 1 ELSE @]
    /\ UNCHANGED <<hwp, ctx, doc, fg, last, hist>>

ThreadSend ==
    /\ \E t \in Threads :
          /\ th.run[t].pc \in {"right_cmd", "justify_cmd", "raw"}
          /\ th' = [th EXCEPT !.log = @ \o Command(th.run[t].pc, th.run[t].text),
                              !.run[t].pc = AfterCommand(@)]
    /\ UNCHANGED <<hwp, ctx, doc, fg, last, hist>>

\* the calls have returned and the threads are free for other calls
ThreadsJoin ==
    /\ \A t \in Threads : ~Running(t)
    /\ ~Quiesced
    /\ th' = NoThreads
    /\ UNCHANGED <<hwp, ctx, doc, fg, last, hist>>

\* the operations made between the calls of the threads
ConnectFirst == Quiesced /\ Connect
ArmRight == Quiesced /\ SetAlignRightNextLine
ArmJustify == Quiesced /\ SetAlignJustifyNextLine
OpenBox == Quiesced /\ InsertBox
BreakLine == Quiesced /\ InsertEnter
ReturnFirst == Quiesced /\ Return

NextThreads ==
    \/ ConnectFirst
    \/ ArmRight
    \/ ArmJustify
    \/ OpenBox
    \/ BreakLine
    \/ ReturnFirst
    \/ ThreadBegin
    \/ ThreadTest
    \/ ThreadWrite
    \/ ThreadRework
    \/ ThreadSend
    \/ ThreadsJoin

SpecThreads == Init /\ [][NextThreads]_vars



----------------------------------------------------------------------------
(* Properties.  They are stated over the call in `last` (its arguments, the *)
(* context before it in last.pre, the commands it sent in last.log), the    *)
(* context after it in ctx, and the history before it in hist.              *)

Pending(c) == c.align_right_next_line \/ c.align_justify_next_line

Active(c) == c.line_right_aligned \/ c.line_justify_aligned \/ c.line_center_aligned

AlignNames ==
    { "ParagraphShapeAlignRight", "ParagraphShapeAlignCenter",
      "ParagraphShapeAlignJustify", "ParagraphShapeAlignLeft" }

AlignCmds(log) == { i \in DOMAIN log : log[i].cmd \in AlignNames }

IsInsertText(e) == e.cmd = "InsertText"

\* the texts handed to the document by the commands of log, in order
TextsSent(log) ==
    LET sel == SelectSeq(log, IsInsertText)
    IN [ i \in DOMAIN sel |-> sel[i].arg ]

\* what a call that delivers text d sends: nothing when d is empty
Delivery(d) == IF d = <<>> THEN <<>> ELSE << d >>

\* the call in `last` is insert_text or insert_equation and went as far as
\* its line-start step: the text is not empty and the paragraph break a
\* tab-led text asks for first did not fail
ReachedLineStart ==
    /\ last.op \in {"insert_text", "insert_equation"}
    /\ last.op = "insert_text" => last.arg # <<>>
    /\ ~(/\ last.res = "error"
         /\ StartsWith(IF last.op = "insert_text" THEN NormalizeTab(last.arg)
                       ELSE last.arg, <<TAB>>)
         /\ last.pre.line_start
         /\ last.pre.first_line_written
         /\ Sent(last.log, "ParagraphShapeAlignRight") = {}
         /\ (last.why = "NotConnected" \/ last.log[Len(last.log)].cmd = "BreakPara"))

C2_SecondTextPlain ==
    (/\ last.op = "insert_text"
     /\ StartsWithLetter(last.arg)
     /\ hist.lastkind = "letter_text")
        => /\ ~last.pre.line_start
           /\ AlignCmds(last.log) = {}
           /\ Len(last.log) = 1
           /\ TextsSent(last.log) = << last.arg >>

C2_Witness ==
    /\ last.op = "insert_text"
    /\ StartsWithLetter(last.arg)
    /\ hist.lastkind = "letter_text"
    /\ last.res = "ok"
    /\ last.pre.in_condition_box
    /\ last.pre.line_right_aligned

\* C3: after every insert_enter() that returns, line_start is true and no
\* active-line alignment flag (right, justify, center) is set, whatever was
\* active before; when an override was active the align-left command was
\* sent after the paragraph break.
C3_EnterResetsLine ==
    (last.op = "insert_enter" /\ last.res = "ok")
        => /\ ctx.line_start
           /\ ~Active(ctx)
           /\ Active(last.pre) =>
                 \E i \in Sent(last.log, "ParagraphShapeAlignLeft") :
                    \E j \in Sent(last.log, "BreakPara") : j < i

C3_Witness ==
    /\ last.op = "insert_enter"
    /\ last.res = "ok"
    /\ ~last.pre.line_start
    /\ last.pre.line_right_aligned
    /\ last.pre.line_justify_aligned
    /\ ctx.line_start

\* C4 as stated: an insert_text(s) that follows an equation insertion
\* delivers s less exactly one leading space, in every typing context.
C4_OneSpaceRemovedEverywhere ==
    (/\ last.op = "insert_text"
     /\ last.res = "ok"
     /\ hist.lastkind = "equation"
     /\ StartsWith(last.arg, <<SP>>))
        => TextsSent(last.log) = Delivery(Tail(last.arg))

\* C4, amended: an insert_text(s) that follows an equation insertion
\* delivers s less exactly one leading space, except on the first line of a
\* box, where the box rule puts one space back in front of a remainder that
\* does not start with a space.
C4_OneSpaceRemovedThenBoxRule ==
    (/\ last.op = "insert_text"
     /\ last.res = "ok"
     /\ hist.lastkind = "equation"
     /\ StartsWith(last.arg, <<SP>>))
        => LET rest == Tail(last.arg)
               forced == /\ last.pre.in_condition_box
                         /\ last.pre.box_line_start
                         /\ ~StartsWith(rest, <<SP>>)
           IN TextsSent(last.log)
                = Delivery(IF forced THEN <<SP>> \o rest ELSE rest)

\* two leading spaces after an equation, outside a box: one is delivered
C4_Witness ==
    /\ last.op = "insert_text"
    /\ last.res = "ok"
    /\ hist.lastkind = "equation"
    /\ last.arg = <<SP, SP>>
    /\ ~last.pre.in_condition_box
    /\ Pending(last.pre)
    /\ TextsSent(last.log) = << <<SP>> >>

C9_PendingClearedAtLineStart ==
    (ReachedLineStart /\ last.pre.line_start /\ Pending(last.pre))
        => ~Pending(ctx)

\* every strategy of the alignment command failed, and so did the raw
\* insertion after it
C9_Witness ==
    /\ last.op = "insert_text"
    /\ last.pre.line_start
    /\ last.pre.align_right_next_line
    /\ last.res = "raw"
    /\ \E i \in Sent(last.log, "ParagraphShapeAlignRight") : last.log[i].via = 0
    /\ \E i \in Sent(last.log, "InsertText") : last.log[i].via = 0
    /\ ~Pending(ctx)

\* C10: whenever line_start is true, a pending one-shot alignment and an
\* active-line alignment are not both set.
C10_PendingOrActiveAtLineStart ==
    ctx.line_start => ~(Pending(ctx) /\ Active(ctx))

\* C6: after every insert_table(rows, cols, cell_data, exit_after=true)
\* with rows >= 1 and cols >= 1 on a connected controller, whether it
\* returned or raised, line_start is true and the last command sent is the
\* align-left command, sent after the commands that leave the table.
C6_TableExitResetsLine ==
    (/\ last.op = "insert_table"
     /\ hwp
     /\ last.arg.rows >= 1
     /\ last.arg.cols >= 1
     /\ last.arg.exit_after)
        => /\ ctx.line_start
           /\ last.log # <<>>
           /\ last.log[Len(last.log)].cmd = "ParagraphShapeAlignLeft"
           /\ \E i \in Sent(last.log, "CloseEx") : i < Len(last.log)

\* a 2 x 2 table whose cells mix text and an equation, left again
C6_Witness ==
    /\ last.op = "insert_table"
    /\ last.res = "ok"
    /\ last.arg.rows = 2
    /\ last.arg.cols = 2
    /\ last.arg.exit_after
    /\ Sent(last.log, "Equation") # {}
    /\ Sent(last.log, "InsertText") # {}
    /\ ~last.pre.line_start
    /\ ctx.line_start

\* C7: insert_table with rows <= 0 or cols <= 0 raises the typed failure
\* for an invalid argument, sends no command at all and leaves the typing
\* context as it was, exit_after or not, connected or not.
C7_BadDimensionsRefused ==
    (last.op = "insert_table" /\ (last.arg.rows <= 0 \/ last.arg.cols <= 0))
        => /\ last.res = "error"
           /\ last.why = "InvalidArgument"
           /\ last.log = <<>>
           /\ ctx = last.pre

C7_Witness ==
    /\ last.op = "insert_table"
    /\ last.arg.rows = 0
    /\ last.arg.cols = MaxDim
    /\ last.arg.exit_after
    /\ last.arg.cell_data # NoData
    /\ hwp
    /\ ~ctx.line_start
    /\ last.res = "error"

\* the paragraphs of d that hold a variant of the marker
MarkerAt(d) == { p \in DOMAIN d.lines : d.lines[p].text \in MarkerVariants }

\* the call deleted the marker of paragraph p and left the cursor there
DeletedAt(p) ==
    /\ p \in MarkerAt(last.doc0)
    /\ doc.lines = [last.doc0.lines EXCEPT ![p].text = ""]
    /\ doc.cur = p

\* the call moved the cursor into a table cell
EnteredCell == \E i \in Sent(last.log, "MoveToCell") : last.log[i].via = 1

OneShotCmds(log) ==
    Sent(log, "ParagraphShapeAlignRight") \cup Sent(log, "ParagraphShapeAlignJustify")

\* C11: the pending alignment is a single request.  An insert_text that
\* starts a line with right and justify both armed sends at most one
\* one-shot alignment command and leaves at most one of the right and
\* justify overrides of the line set.
C11_SinglePendingAlign ==
    (/\ last.op = "insert_text"
     /\ ReachedLineStart
     /\ last.pre.line_start
     /\ last.pre.align_right_next_line
     /\ last.pre.align_justify_next_line
     /\ ~last.pre.line_right_aligned
     /\ ~last.pre.line_justify_aligned)
        => /\ Cardinality(OneShotCmds(last.log)) <= 1
           /\ ~(ctx.line_right_aligned /\ ctx.line_justify_aligned)

\* the commands that put something into the document
ContentNames == { "InsertText", "Equation", "TableCreate", "InsertFile" }

\* the call in `last` put something into the document
InsertedContent ==
    \E i \in DOMAIN last.log : last.log[i].cmd \in ContentNames /\ last.log[i].via # 0

\* the call in `last` is an insertion of text, an equation, a box or a
\* table that was asked to insert something, and it returned
InsertionReturned ==
    /\ last.res = "ok"
    /\ \/ last.op = "insert_text" /\ last.arg # <<>>
       \/ last.op \in {"insert_equation", "insert_box", "insert_view_box", "insert_table"}

\* the call in `last` typed auto-indent spaces: an insertion other than
\* insert_text sent spaces only, or insert_text sent more than it was given
TypedIndent ==
    \E i \in Sent(last.log, "InsertText") :
       IF last.op = "insert_text"
       THEN Len(last.log[i].arg) > Len(NormalizeTab(last.arg))
       ELSE last.log[i].arg \in { Spaces(1), Spaces(2) }

\* first_line_written never reverts, is set by every insertion that
\* returns, and while it is false no call types auto-indent spaces
FirstLineWrittenGates ==
    /\ last.pre.first_line_written => ctx.first_line_written
    /\ InsertionReturned => ctx.first_line_written
    /\ ~last.pre.first_line_written => ~TypedIndent

\* C12 as stated: first_line_written is monotone and gates indentation,
\* and it is false until content has been inserted: a call that sets it
\* has put something into the document.
C12_FalseUntilContent ==
    /\ FirstLineWrittenGates
    /\ (~Idle /\ ~last.pre.first_line_written /\ ctx.first_line_written) => InsertedContent

\* C13: after every insert_box() and every insert_view_box() that returns,
\* whichever strategy made the container, in_condition_box and
\* box_line_start are true and line_start is false; after an exit_box()
\* that returns, in_condition_box is false.
C13_InBoxWhileInside ==
    /\ (last.op \in {"insert_box", "insert_view_box"} /\ last.res = "ok")
          => /\ ctx.in_condition_box
             /\ ctx.box_line_start
             /\ ~ctx.line_start
    /\ (last.op = "exit_box" /\ last.res = "ok") => ~ctx.in_condition_box

\* the call in `last` is an insertion other than insert_equation that
\* returned (an insert_text of no text does nothing and is not one)
OtherInsertionReturned ==
    /\ last.res = "ok"
    /\ \/ last.op = "insert_text" /\ last.arg # <<>>
       \/ last.op \in {"insert_enter", "insert_box", "insert_view_box", "insert_table"}

\* C14: last_was_equation is true only immediately after an equation
\* insertion.  Only insert_equation sets it, and once another insertion
\* (text, paragraph break, box, table) has returned it is false.
C14_EquationFlagOnlyAfterEquation ==
    /\ (~Idle /\ ~last.pre.last_was_equation /\ ctx.last_was_equation)
          => last.op = "insert_equation"
    /\ OtherInsertionReturned => ~ctx.last_was_equation

\* the public insertion operations of the model
InsertionOps ==
    { "insert_text", "insert_enter", "insert_equation", "insert_box",
      "insert_view_box", "insert_table", "exit_box", "exit_table" }

\* C15: no public insertion operation lets an exception of the transport
\* reach its caller: the call returns, or it raises HwpControllerError.
C15_NoRawException ==
    last.op \in InsertionOps => last.res \in {"ok", "error"}

\* the call in `last` made a structural step that failed on every strategy:
\* the creation of the container, the last move into its first cell, a
\* navigation between the cells of a table being filled (those commands
\* carry the cell they were sent from), or the exit from the container
StructuralStepFailed ==
    \/ \E i \in Sent(last.log, "TableCreate") : last.log[i].via = 0
    \/ /\ Sent(last.log, "MoveToCell") # {}
       /\ last.log[SetMax(Sent(last.log, "MoveToCell"))].via = 0
    \/ \E i \in DOMAIN last.log :
          /\ last.log[i].cmd \in {"TableRightCell", "TableLowerCell", "TableLeftCell"}
          /\ last.log[i].via = 0
          /\ last.log[i].at # <<>>
    \/ \E i \in Sent(last.log, "TableLowerCell") :
          last.log[i].via = 0 /\ last.log[i].at = <<>>

\* C16: a structural operation whose container creation, move into the
\* first cell, cell navigation or container exit failed on every strategy
\* ends with the typed failure.
C16_StructuralFailureTyped ==
    (/\ last.op \in {"insert_box", "insert_view_box", "insert_table",
                     "exit_box", "exit_table"}
     /\ StructuralStepFailed)
        => last.res = "error"

\* C17: placeholder cleanup never escalates to the caller: on a connected
\* controller focus_placeholder returns normally whether or not the marker
\* is found and deleted, the search interface being unavailable included.
C17_FocusAlwaysReturns ==
    (last.op = "focus_placeholder" /\ hwp) => last.res = "ok"

\* the operations of the public surface that drive the external application
DrivingCall ==
    \/ last.op = "insert_text" /\ last.arg # <<>>
    \/ last.op \in { "insert_enter", "insert_equation", "insert_box", "insert_view_box",
                     "exit_box", "exit_table" }
    \/ last.op = "insert_table" /\ last.arg.rows > 0 /\ last.arg.cols > 0

\* C18: every operation that drives the external application, issued before
\* a session exists, fails with the typed not-connected failure and never
\* reports success.
C18_NotConnectedRefused ==
    (DrivingCall /\ ~Idle /\ ~hwp) => (last.res = "error" /\ last.why = "NotConnected")

\* the call in last entered the scope of _preserve_foreground() and captured
\* a foreground window there
ScopeCaptured ==
    /\ last.op \in { "connect", "activate_target_window" }
    /\ last.log # <<>>
    /\ last.log[1].cmd = "GetForegroundWindow"
    /\ last.log[1].via = 1
    /\ last.log[1].arg # <<NoWin>>

\* the window captured on entry
CapturedWindow == last.log[1].arg[1]

\* the last step of the scope, asking which window is in front or asking
\* for the captured one to be put there, failed
RestoreFailed == last.log[Len(last.log)].via = 0

\* C19 as stated: around connect() and activate_target_window() the
\* foreground window captured on entry is the foreground window again when
\* the operation ends, on the success path and on every failure path.
C19_ForegroundAlwaysRestored ==
    ScopeCaptured => fg = CapturedWindow

\* C19: around connect() and activate_target_window() the foreground window
\* captured on entry is the foreground window again when the operation
\* ends, whether it returns or raises, unless the restoring step itself
\* fails; that failure is swallowed.
C19_ForegroundRestoredUnlessRestoreFails ==
    (ScopeCaptured /\ ~RestoreFailed) => fg = CapturedWindow

\* connect() raised inside the scope after the attach had brought another
\* window to the front, and the captured window was put back
C19_Witness ==
    /\ ScopeCaptured /\ ~RestoreFailed
    /\ last.op = "connect"
    /\ last.res # "ok"
    /\ \E i \in Sent(last.log, "SetForegroundWindow") : last.log[i].via = 1
    /\ fg = CapturedWindow

\* the locator found no marker and entered no box
HashFailed ==
    /\ last.op = "focus_placeholder" /\ hwp /\ last.res = "ok"
    /\ ~EnteredCell
    /\ \A i \in Sent(last.log, "RepeatFind") :
          last.log[i].via # 0 => last.log[i].arg[1] \notin MarkerVariants

\* the locator moved the cursor to the start of the document
MovedToDocStart ==
    \E i \in DOMAIN last.log :
       last.log[i].cmd \in {"MoveDocBegin", "MoveTop", "MoveBegin"} /\ last.log[i].via # 0

\* C20: when every strategy of the "###" locator fails, the cursor is never
\* left at the start of the document by a move to the document start that
\* the locator issued.
C20_NotLeftAtDocStart ==
    (HashFailed /\ MovedToDocStart /\ last.doc0.cur # 1) => doc.cur # 1

\* the commands of the call in last that ask for a move to the document start
DocStartCmds ==
    { i \in DOMAIN last.log : last.log[i].cmd \in {"MoveDocBegin", "MoveTop", "MoveBegin"} }

\* C21: when the cursor position cannot be captured, focus_placeholder
\* issues no move-to-document-start command, since the cursor could not be
\* restored afterwards.
C21_NoDocStartWithoutPosition ==
    (last.op = "focus_placeholder" /\ hwp /\ ~last.env.getpos) => DocStartCmds = {}

\* the pending one-shot alignment requests of a context
PendingOf(c) == << c.align_right_next_line, c.align_justify_next_line >>

\* arming leaves the context as arming once leaves it, and touches nothing else
ArmingIdempotent ==
    /\ last.op = "set_align_right_next_line"
          => ctx = [last.pre EXCEPT !.align_right_next_line = TRUE]
    /\ last.op = "set_align_justify_next_line"
          => ctx = [last.pre EXCEPT !.align_justify_next_line = TRUE]

\* a request is not consumed by a call that is not a line-start event
StaysArmed ==
    /\ last.op \in {"insert_enter", "insert_box", "insert_view_box", "insert_table"}
          => PendingOf(ctx) = PendingOf(last.pre)
    /\ (last.op \in {"insert_text", "insert_equation"} /\ ~last.pre.line_start)
          => PendingOf(ctx) = PendingOf(last.pre)

\* C22 as stated: arming is idempotent and changes no other field; an armed
\* request stays armed across insert_enter, box and table insertion and the
\* insertions made while line_start is false, and is cleared by the first
\* insert_text or insert_equation that runs with line_start true.
C22_ConsumedByEveryLineStartCall ==
    /\ ArmingIdempotent
    /\ StaysArmed
    /\ (last.op \in {"insert_text", "insert_equation"} /\ last.pre.line_start)
          => ~Pending(ctx)

\* C22: arming is idempotent and changes no other field; an armed request
\* stays armed across insert_enter, box and table insertion and the
\* insertions made while line_start is false; it is cleared by the first
\* insert_text with a non-empty text or insert_equation that runs with
\* line_start true and reaches its line-start step, and is left as it was
\* by a call that does not get that far (an empty text, or a tab-led text
\* whose paragraph break fails).
C22_ConsumedAtLineStartStep ==
    /\ ArmingIdempotent
    /\ StaysArmed
    /\ (ReachedLineStart /\ last.pre.line_start) => ~Pending(ctx)
    /\ (last.op \in {"insert_text", "insert_equation"} /\ ~ReachedLineStart)
          => PendingOf(ctx) = PendingOf(last.pre)

\* a justify request armed before earlier content is consumed by an
\* equation inserted at line start
C22_Witness ==
    /\ last.op = "insert_equation"
    /\ last.res = "ok"
    /\ last.pre.line_start
    /\ last.pre.first_line_written
    /\ last.pre.align_justify_next_line
    /\ ~Pending(ctx)

\* C23: insert_enter inside a box does not re-arm the leading-space rule of
\* the box: after it box_line_start is false, and the insert_text that
\* follows, given a text with no leading space, delivers it with no space
\* forced in front.
C23_EnterInBoxDoesNotRearm ==
    /\ (last.op = "insert_enter" /\ last.res = "ok" /\ last.pre.in_condition_box)
          => /\ ~ctx.box_line_start
             /\ ctx.in_condition_box
    /\ (/\ last.op = "insert_text" /\ hist.lastkind = "box_enter"
        /\ last.arg # <<>> /\ ~StartsWith(NormalizeTab(last.arg), <<SP>>))
          => /\ last.pre.in_condition_box /\ ~last.pre.box_line_start
             /\ \A i \in Sent(last.log, "InsertText") :
                   ~StartsWith(last.log[i].arg, <<SP>>)
             /\ last.res = "ok"
                   => TextsSent(last.log)
                        = Delivery(IF last.pre.align_right_next_line
                                   THEN LStripOf(NormalizeTab(last.arg), {SP, TAB})
                                   ELSE NormalizeTab(last.arg))

\* inside a box, after a paragraph break, a text with no leading space is
\* delivered as it is
C23_Witness ==
    /\ last.op = "insert_text"
    /\ hist.lastkind = "box_enter"
    /\ last.arg = << "t" >>
    /\ last.pre.in_condition_box
    /\ TextsSent(last.log) = << << "t" >> >>

\* the auto-indent insertions of the call in last: two spaces typed
IndentSent == { i \in Sent(last.log, "InsertText") : last.log[i].arg = Spaces(2) }

\* insert_equation ran on a session, at line start, after first content,
\* outside a box, with content that does not begin with a tab
EquationAtPlainLineStart ==
    /\ hwp
    /\ last.pre.line_start
    /\ last.pre.first_line_written
    /\ ~last.pre.in_condition_box
    /\ ~StartsWith(last.arg, <<TAB>>)

\* C24 as stated: insert_equation inserts two auto-indent spaces exactly
\* when it runs at line start, after first content, outside a box, and no
\* pending one-shot alignment, right or justify, was applied for the line.
C24_IndentUnlessAnyAlignment ==
    (last.op = "insert_equation" /\ ~StartsWith(last.arg, <<TAB>>))
        => Cardinality(IndentSent)
             = IF EquationAtPlainLineStart /\ ~Pending(last.pre) THEN 1 ELSE 0

\* C24: insert_equation inserts two auto-indent spaces, once and before the
\* equation, exactly when it runs at line start, after first content,
\* outside a box, with content that does not begin with a tab, and no
\* pending right alignment was applied for the line; a pending justify
\* alone does not suppress the indent.  It inserts no other indentation.
C24_IndentUnlessRightAligned ==
    last.op = "insert_equation"
        => /\ Cardinality(IndentSent)
                = IF EquationAtPlainLineStart /\ ~last.pre.align_right_next_line
                  THEN 1 ELSE 0
           /\ \A i \in IndentSent : \A j \in Sent(last.log, "Equation") : i < j
           /\ \A i \in Sent(last.log, "InsertText") : last.log[i].arg # Spaces(1)

\* an equation on a justified line is indented
C24_Witness ==
    /\ last.op = "insert_equation"
    /\ last.res = "ok"
    /\ EquationAtPlainLineStart
    /\ last.pre.align_justify_next_line
    /\ ctx.line_justify_aligned
    /\ IndentSent # {}

\* insert_equation ran on a session at line start with content that begins
\* with a tab
TabbedEquation ==
    /\ last.op = "insert_equation"
    /\ hwp
    /\ last.pre.line_start
    /\ StartsWith(last.arg, <<TAB>>)

\* the content handed to the equation collaborator by the call in last
EquationContents == { last.log[i].arg : i \in Sent(last.log, "Equation") }

\* C25 as stated: at line start with content beginning with a tab the tab
\* alone is inserted before the equation, and the content handed on is the
\* original content without that tab.
C25_TabAloneThenRest ==
    (TabbedEquation /\ last.res = "ok")
        => /\ TextsSent(last.log) = << << TAB >> >>
           /\ EquationContents = { Tail(last.arg) }

\* what insert_text delivers for the single tab of a tab-led equation:
\* nothing on a line that a pending right alignment strips
TabDelivered(c) == IF c.align_right_next_line THEN <<>> ELSE << TAB >>

\* C25: at line start with content beginning with a tab, insert_equation
\* types the tab through insert_text and no auto-indent spaces: after a
\* paragraph break when content has been written before, the tab alone,
\* except that a pending right alignment strips it; the content handed to
\* the equation collaborator is the original content without its leading
\* tabs.
C25_TabThroughInsertText ==
    TabbedEquation
        => /\ \A i \in Sent(last.log, "InsertText") : last.log[i].arg = << TAB >>
           /\ EquationContents \subseteq { LStripOf(last.arg, {TAB}) }
           /\ last.res = "ok"
                 => /\ TextsSent(last.log) = Delivery(TabDelivered(last.pre))
                    /\ EquationContents # {}
                    /\ (Sent(last.log, "BreakPara") # {}) = last.pre.first_line_written
                    /\ \A i \in Sent(last.log, "InsertText") :
                          \A j \in Sent(last.log, "Equation") : i < j

\* a tab-led equation after earlier content: break, tab, equation
C25_Witness ==
    /\ TabbedEquation
    /\ last.res = "ok"
    /\ last.arg = << TAB, TAB, "x" >>
    /\ last.pre.first_line_written
    /\ TextsSent(last.log) = << << TAB >> >>
    /\ EquationContents = { << "x" >> }

\* insert_text ran on a session with a text that begins with a tab, literal
\* or escaped
TabLedText ==
    /\ last.op = "insert_text"
    /\ hwp
    /\ StartsWith(NormalizeTab(last.arg), <<TAB>>)

\* C26: insert_text with a tab-led text issues one paragraph break, before
\* anything else it sends, exactly when it is called at line start after
\* content has been written; it issues none on the first line ever written
\* or when line_start is false; and after the break the pending one-shot
\* alignment is applied to the new line.
C26_BreakBeforeTabLedLine ==
    TabLedText
        => /\ Cardinality(Sent(last.log, "BreakPara"))
                = IF last.pre.line_start /\ last.pre.first_line_written THEN 1 ELSE 0
           /\ \A b \in Sent(last.log, "BreakPara") :
                 \A i \in DOMAIN last.log : i # b => b < i
           /\ \A b \in Sent(last.log, "BreakPara") :
                 last.log[b].via # 0
                    => /\ ~Pending(ctx)
                       /\ last.pre.align_right_next_line
                             => /\ Sent(last.log, "ParagraphShapeAlignRight") # {}
                                /\ ctx.line_right_aligned
                       /\ last.pre.align_justify_next_line
                             => /\ Sent(last.log, "ParagraphShapeAlignJustify") # {}
                                /\ ctx.line_justify_aligned

\* an escaped tab at line start after earlier content, with justify
\* pending: break, justify, tab
C26_Witness ==
    /\ TabLedText
    /\ last.arg = << "/", "t" >>
    /\ last.res = "ok"
    /\ last.pre.line_start /\ last.pre.first_line_written
    /\ last.pre.align_justify_next_line
    /\ last.log[1].cmd = "BreakPara"
    /\ ctx.line_justify_aligned
    /\ TextsSent(last.log) = << << TAB >> >>

\* the call in last is an insert_text that returned, having applied a
\* pending right alignment
AppliedRight ==
    /\ last.op = "insert_text" /\ last.res = "ok" /\ last.arg # <<>>
    /\ last.pre.align_right_next_line
    /\ ~ctx.align_right_next_line

\* the call in last is an insert_text that returned without applying a
\* right alignment
AppliedNoRight ==
    /\ last.op = "insert_text" /\ last.res = "ok" /\ last.arg # <<>>
    /\ ctx.align_right_next_line = last.pre.align_right_next_line

\* the context in which insert_text applies its text rules: a tab-led
\* text at line start after first content is preceded by a paragraph
\* break, and a break inside a box disarms the box-space rule
AtTextRules(c, text) ==
    IF c.line_start /\ c.first_line_written /\ c.in_condition_box
          /\ StartsWith(text, <<TAB>>)
    THEN [c EXCEPT !.box_line_start = FALSE] ELSE c

\* text, with the space the box-space rule forces in front of it
BoxSpaced(c, text) ==
    IF c.in_condition_box /\ c.box_line_start /\ ~StartsWith(text, <<SP>>)
    THEN <<SP>> \o text ELSE text

\* a call that applies no right alignment delivers its leading whitespace
\* unchanged apart from the equation-space and box-space rules
WhitespaceKeptWithoutRight ==
    AppliedNoRight
        => LET t == NormalizeTab(last.arg)
               c == AtTextRules(last.pre, t)
           IN TextsSent(last.log)
                = Delivery(BoxSpaced(c, IF c.last_was_equation /\ StartsWith(t, <<SP>>)
                                        THEN Tail(t) ELSE t))

\* C27 as stated: the text delivered by the insert_text that applies a
\* pending right alignment has all of its leading spaces and tabs removed;
\* a call that applies no right alignment delivers its leading whitespace
\* unchanged apart from the equation-space and box-space rules.
C27_RightStripsAllLeading ==
    /\ AppliedRight
          => TextsSent(last.log) = Delivery(LStripOf(NormalizeTab(last.arg), {SP, TAB}))
    /\ WhitespaceKeptWithoutRight

\* C27: the insert_text call that applies a pending right alignment removes
\* all the leading spaces and tabs of its text, after which only the
\* box-space rule can put one space in front; a call that applies no right
\* alignment, one that applies only justify included, delivers its leading
\* whitespace unchanged apart from the equation-space and box-space rules.
C27_RightStripsThenBoxRule ==
    /\ AppliedRight
          => LET t == NormalizeTab(last.arg)
             IN TextsSent(last.log)
                  = Delivery(BoxSpaced(AtTextRules(last.pre, t), LStripOf(t, {SP, TAB})))
    /\ WhitespaceKeptWithoutRight

\* a right-aligned line typed with a tab and a letter: the letter alone
C27_Witness ==
    /\ AppliedRight
    /\ last.arg = << TAB, "t" >>
    /\ ~last.pre.in_condition_box
    /\ Sent(last.log, "ParagraphShapeAlignRight") # {}
    /\ TextsSent(last.log) = << << "t" >> >>

\* the call in last inserts a container on a session
ContainerCall ==
    /\ hwp
    /\ \/ last.op \in {"insert_box", "insert_view_box"}
       \/ last.op = "insert_table" /\ last.arg.rows > 0 /\ last.arg.cols > 0

\* the single spaces typed in front of the container
ContainerIndent ==
    { i \in Sent(last.log, "InsertText") :
         last.log[i].arg = Spaces(1) /\ last.log[i].at = <<>> }

\* the container was not taken from a template file
RawPath == \A i \in Sent(last.log, "InsertFile") : last.log[i].via = 0

\* the line in front of the container can take an indent
IndentableLine ==
    /\ last.pre.line_start
    /\ last.pre.first_line_written
    /\ ~last.pre.in_condition_box

\* C28 as stated: insert_box, insert_view_box and insert_table indent the
\* line in front of the container with a single space, at line start after
\* first content and outside a box, unless a one-shot alignment is
\* pending; they never clear the pending alignment.
C28_ContainerIndentUnlessPending ==
    ContainerCall
        => /\ Cardinality(ContainerIndent)
                = IF IndentableLine /\ ~Pending(last.pre) THEN 1 ELSE 0
           /\ PendingOf(ctx) = PendingOf(last.pre)

\* C28: insert_table always, and insert_box and insert_view_box when the
\* container is not taken from a template file, indent the line in front
\* of the container with a single space, at line start after first content
\* and outside a box, unless a one-shot alignment is pending; a container
\* taken from a template gets no indent; no container clears the pending
\* alignment.
C28_RawContainerIndentUnlessPending ==
    ContainerCall
        => /\ Cardinality(ContainerIndent)
                = IF RawPath /\ IndentableLine /\ ~Pending(last.pre) THEN 1 ELSE 0
           /\ \A i \in ContainerIndent : \A j \in Sent(last.log, "TableCreate") : i < j
           /\ PendingOf(ctx) = PendingOf(last.pre)

\* a view box built without its template, after earlier content: indented
C28_Witness ==
    /\ ContainerCall
    /\ last.op = "insert_view_box"
    /\ last.res = "ok"
    /\ RawPath /\ IndentableLine /\ ~Pending(last.pre)
    /\ ContainerIndent # {}
    /\ Sent(last.log, "TableCreate") # {}

\* the call in last is an insert_table that returned, on a session
TableFilled ==
    /\ last.op = "insert_table" /\ hwp /\ last.res = "ok"
    /\ last.arg.rows > 0 /\ last.arg.cols > 0

\* the value of cell_data for the cell (empty when there is none)
CellValue(cell) ==
    LET data == NormalizeCellData(last.arg.cell_data, last.arg.cols)
    IN IF cell[1] <= Len(data) /\ cell[2] <= Len(data[cell[1]])
       THEN data[cell[1]][cell[2]] ELSE <<>>

\* the content commands sent while the cursor was in the cell
ContentAt(cell) ==
    { i \in DOMAIN last.log :
         last.log[i].at = cell /\ last.log[i].cmd \in {"InsertText", "Equation"} }

\* cell a comes before cell b, or is b, in row-major order
RowMajor(a, b) == a[1] < b[1] \/ (a[1] = b[1] /\ a[2] <= b[2])

\* the content command i carries the value of the cell: the value without
\* its equation prefix (and the blanks around the rest) to the equation
\* path, the value itself as text
CarriesValue(i, value) ==
    IF StartsWith(value, EQ)
    THEN /\ last.log[i].cmd = "Equation"
         /\ last.log[i].arg = Strip(SubSeq(value, Len(EQ) + 1, Len(value)))
    ELSE last.log[i].cmd = "InsertText"

\* C29: insert_table inserts every non-empty cell_data[r][c] inside the
\* table while the cursor is in cell (r, c), in row-major order, a value
\* with the equation prefix through insert_equation without the prefix and
\* every other value through insert_text, and nothing else.
C29_CellsFilledInPlace ==
    TableFilled
        => /\ \A r \in 1..last.arg.rows, c \in 1..last.arg.cols :
                 /\ (ContentAt(<<r, c>>) # {}) = (CellValue(<<r, c>>) # <<>>)
                 /\ \A i \in ContentAt(<<r, c>>) : CarriesValue(i, CellValue(<<r, c>>))
           /\ \A i, j \in DOMAIN last.log :
                 (/\ i < j
                  /\ i \in ContentAt(last.log[i].at) /\ j \in ContentAt(last.log[j].at)
                  /\ last.log[i].at # <<>> /\ last.log[j].at # <<>>)
                    => RowMajor(last.log[i].at, last.log[j].at)

----------------------------------------------------------------------------
(* Command cascades (SpecCascade).                                          *)

CascadeCall ==
    last.op \in {"_run_action_best_effort", "_set_paragraph_align",
                 "_delete_found_marker"}

\* the strategies of the cascade in `last`, in priority order
StrategiesOf(l) ==
    CASE l.op = "_run_action_best_effort" ->
            << <<Shapes[1], l.arg>>, <<Shapes[2], l.arg>> >>
      [] l.op = "_set_paragraph_align" ->
            << <<Shapes[1], AlignCmd(l.arg)>>, <<Shapes[2], AlignCmd(l.arg)>> >>
      [] OTHER ->
            << <<Shapes[1], "Delete">>, <<Shapes[2], "Delete">>,
               <<Shapes[1], "DeleteBack">>, <<Shapes[2], "DeleteBack">> >>

Successes == { i \in DOMAIN last.log : last.log[i].ok }

ReportsFailure == last.said \in {"False", "raise"}

\* C30: a cascade tries its strategies in their fixed order (the attempts are
\* a prefix of the list of strategies), the first success is its last
\* attempt, so at most one attempt succeeds and the document shows the
\* effect of that one operation only; it gives up only when every strategy
\* was tried and failed, and reports a failure only when none succeeded (on
\* a session, only after all of them failed)
C30_FirstSuccessEndsCascade ==
    CascadeCall =>
        /\ Len(last.log) <= Len(StrategiesOf(last))
        /\ \A i \in DOMAIN last.log :
              <<last.log[i].how, last.log[i].cmd>> = StrategiesOf(last)[i]
        /\ Cardinality(Successes) <= 1
        /\ Successes \subseteq {Len(last.log)}
        /\ (hwp /\ Successes = {}) => Len(last.log) = Len(StrategiesOf(last))
        /\ ReportsFailure => Successes = {}
        /\ (last.op = "_run_action_best_effort" /\ hwp) =>
              (last.said = "False") = (Successes = {})
        /\ doc = IF Successes = {} THEN last.doc0
                 ELSE Effect(last.doc0, last.log[Len(last.log)].cmd)

\* a marker is selected, Delete fails in both call shapes, DeleteBack in
\* the first, and the second call shape of DeleteBack deletes the marker
C30_Witness ==
    /\ last.op = "_delete_found_marker"
    /\ hwp
    /\ Len(last.log) = 4
    /\ Successes = {4}
    /\ last.doc0.sel
    /\ last.doc0.lines[last.doc0.cur].text \in MarkerVariants
    /\ doc.lines[doc.cur].text = ""

----------------------------------------------------------------------------
(* The strategies of the "###" locator, read off the commands of the call   *)
(* (SpecFind).                                                              *)

HashCall == last.op = "focus_placeholder" /\ hwp

\* the command i is a search for the marker, for the heading of a view box
MarkerFind(i) ==
    last.log[i].cmd = "RepeatFind" /\ last.log[i].arg[1] \in MarkerVariants

HeadingFind(i) ==
    last.log[i].cmd = "RepeatFind" /\ last.log[i].arg[1] \notin MarkerVariants

HeadingFinds == { i \in DOMAIN last.log : HeadingFind(i) }

\* the place of the Cancel of the heading's selection (0: there is none)
CancelAt ==
    IF Sent(last.log, "Cancel") = {} THEN 0 ELSE SetMin(Sent(last.log, "Cancel"))

\* the steps down of the third and fourth strategies: those that are not
\* among the HeadingSteps steps (a move and a probe each) that follow the
\* Cancel in the second strategy
ForwardDownsAfter(k) ==
    { i \in DOMAIN last.log :
        /\ last.log[i].cmd = "MoveDown"
        /\ k = 0 \/ i < k \/ i > k + 2 * HeadingSteps }

ForwardDowns == ForwardDownsAfter(CancelAt)

\* the searches of the first strategy: six rounds, three directions, four
\* candidates
FirstBudget == 6 * 3 * Len(Candidates)

\* the commands by which a strategy succeeds: a search that selects the
\* marker, a probe that finds the cursor in a cell
Hits ==
    { i \in DOMAIN last.log :
        /\ last.log[i].via # 0
        /\ MarkerFind(i) \/ last.log[i].cmd = "MoveToCell" }

\* after the command i only the end of a successful strategy follows: the
\* search inside the box entered (two rounds, two directions) and the
\* deletion of the marker
OnlyWrapUpAfter(i) ==
    /\ \A j \in (i + 1)..Len(last.log) :
          \/ last.log[j].cmd \in {"Delete", "DeleteBack"}
          \/ MarkerFind(j) /\ last.log[i].cmd = "MoveToCell"
    /\ Len(last.log) - i <= 2 * 2 * Len(Candidates) + 2

RanFourth == Cardinality(ForwardDowns) > NavSteps

\* the forward probing was run again after the restore at command i
SecondRun(downs, i) ==
    /\ last.log[i].cmd = "SetPos"
    /\ last.log[i].arg = last.doc0.cur
    /\ i + 1 \in downs
    /\ Cardinality({ j \in downs : j < i }) = NavSteps

\* C31: the "###" locator starts with the scoped text search; the heading
\* search comes only after the whole first search failed, the forward
\* probing only after the heading search and with no cell entered before
\* it; the first search that selects the marker or probe that enters a cell
\* is followed by the end of its own strategy only; and the forward probing
\* is run a second time only after a restore of the position captured at
\* entry, which was captured.
C31_StrategiesInOrder ==
    (HashCall /\ last.log # <<>>) =>
        LET heads == HeadingFinds
            downs == ForwardDowns
            hits  == Hits
        IN /\ MarkerFind(1)
           /\ heads # {} =>
                 /\ SetMin(heads) = FirstBudget + 1
                 /\ \A i \in 1..FirstBudget : MarkerFind(i) /\ last.log[i].via = 0
           /\ downs # {} =>
                 /\ heads # {}
                 /\ SetMax(heads) < SetMin(downs)
                 /\ \A i \in 1..SetMin(downs) :
                       last.log[i].cmd = "MoveToCell" => last.log[i].via = 0
           /\ hits # {} => OnlyWrapUpAfter(SetMin(hits))
           /\ Cardinality(downs) <= 2 * NavSteps
           /\ Cardinality(downs) > NavSteps =>
                 /\ last.env.getpos
                 /\ \E i \in DOMAIN last.log : SecondRun(downs, i)

\* every strategy was tried in turn: the fourth one ran, from the position
\* captured at entry
C31_Witness ==
    /\ HashCall /\ last.res = "ok"
    /\ RanFourth
    /\ HeadingFinds # {}
    /\ Hits = {}

----------------------------------------------------------------------------
(* The other markers (SpecMarker).                                          *)

MarkerCall ==
    /\ last.op \in {"focus_placeholder", "_cleanup_template_placeholder"}
    /\ last.arg # "###" \/ last.op = "_cleanup_template_placeholder"
    /\ hwp

\* no search of the call selected a spelling of the marker
NothingFound == \A i \in Sent(last.log, "RepeatFind") : last.log[i].via = 0

\* C32: when focus_placeholder(marker), marker other than "###", or the
\* cleanup of a template placeholder finds no spelling of the marker and the
\* position was captured at entry, the cursor is at that position when the
\* call ends, whether it returns or raises.
C32_CursorBackWhenNotFound ==
    (MarkerCall /\ NothingFound /\ last.env.getpos) => doc.cur = last.doc0.cur

----------------------------------------------------------------------------
(* The retry loops (SpecRetry).                                             *)

RetryCall == last.op = "_repeat_find_retry"

\* the searches one round makes, and the searches the call may make
RoundSize == Len(last.arg.directions) * Len(last.arg.candidates)

Budget == Max(1, last.arg.attempts) * RoundSize

Finds == Sent(last.log, "RepeatFind")

\* the k-th search of a round looks for this, this way
Planned(k) ==
    << last.arg.candidates[((k - 1) % Len(last.arg.candidates)) + 1],
       last.arg.directions[((k - 1) \div Len(last.arg.candidates)) + 1] >>

\* the searches of the loop, in the order of the rounds, each round going
\* through the directions and, for each, the candidates; no search follows
\* a hit
SearchesWithinBudget ==
    LET finds == Finds
    IN /\ Cardinality(finds) <= Budget
       /\ \A i \in finds :
             /\ last.log[i].arg =
                   Planned(((Cardinality({ j \in finds : j < i })) % RoundSize) + 1)
             /\ last.log[i].via # 0 => i = Len(last.log)

\* a wait comes after a whole number of failed rounds and before the last
\* round
WaitsBetweenRounds ==
    \A i \in Sent(last.log, "sleep") :
       /\ Cardinality({ j \in Finds : j < i })
             = RoundSize * Cardinality({ j \in Sent(last.log, "sleep") : j <= i })
       /\ Cardinality({ j \in Sent(last.log, "sleep") : j <= i })
             <= Max(1, last.arg.attempts) - 1

\* C33: _repeat_find_retry makes at most max(1, attempts) * |directions| *
\* |candidates| searches, returns True with the first hit as its last
\* command, waits only between two rounds, and returns False only after
\* every search of the budget failed; _navigate_forward_into_table takes at
\* most NavSteps steps down, stops at the first cell entered and returns
\* False only after NavSteps steps.
C33_LoopsWithinBudget ==
    /\ RetryCall =>
          /\ SearchesWithinBudget
          /\ WaitsBetweenRounds
          /\ (last.said = "True") =
                (\E i \in Finds : last.log[i].via # 0)
          /\ last.said = "False" =>
                /\ Cardinality(Finds) = Budget
                /\ Cardinality(Sent(last.log, "sleep")) = Max(1, last.arg.attempts) - 1
          /\ last.said = "raise" => last.env.find = "missing"
    /\ last.op = "_navigate_forward_into_table" =>
          /\ Cardinality(Sent(last.log, "MoveDown")) <= NavSteps
          /\ \A i \in Sent(last.log, "MoveToCell") :
                /\ last.log[i - 1].cmd = "MoveDown"
                /\ last.log[i].via # 0 => i = Len(last.log) /\ last.said = "True"
          /\ last.said = "False" =>
                /\ Cardinality(Sent(last.log, "MoveDown")) = NavSteps
                /\ Cardinality(Sent(last.log, "MoveToCell")) = NavSteps

\* three rounds of four searches fail, with a wait after the first and the
\* second round only
C33_Witness ==
    /\ RetryCall
    /\ last.said = "False"
    /\ last.arg.attempts = 3
    /\ RoundSize = 4
    /\ Cardinality(Sent(last.log, "sleep")) = 2
    /\ last.log[Len(last.log)].cmd = "RepeatFind"

----------------------------------------------------------------------------
(* Images (SpecImage).                                                      *)

ImageCall == last.op \in {"insert_cropped_image", "_insert_picture"}

\* the commands of the call: the one that created the table, those that
\* put the picture in, those that left the table
Created == { i \in Sent(last.log, "TableCreate") : last.log[i].via # 0 }

Pictured == { i \in Sent(last.log, "InsertPicture") : last.log[i].via # 0 }

Exited == { i \in Sent(last.log, "MoveDown") : last.log[i].via # 0 }

\* C34: in every image insertion the picture is put in after the table was
\* created, its borders stripped and its cell centred, and before the exit
\* from the table; and every call that created the table has left it when
\* it ends, whether it returns or raises.
C34_PictureBracketedByTable ==
    ImageCall =>
        /\ \A p \in Pictured :
              /\ \E i \in Created : i < p
              /\ \E i \in Sent(last.log, "TableCellBorderFill") :
                    i < p /\ last.log[i].arg = "border" /\ last.log[i].via # 0
              /\ \E i \in Sent(last.log, AlignCmd("center")) :
                    i < p /\ last.log[i].via # 0
              /\ \A i \in Exited : p < i
        /\ Created # {} => \E i \in Exited : i > SetMax(Created)

----------------------------------------------------------------------------
(* exit_box (Spec).                                                         *)

\* the context c with the two box flags put down
OutOfBox(c) == [c EXCEPT !.in_condition_box = FALSE, !.box_line_start = FALSE]

\* C35: after exit_box() on a connected controller the two box flags are
\* down and every other field of the context is as before, whether the call
\* returned or raised; it raises, the typed failure, exactly when neither
\* exit strategy worked.
C35_ExitBoxClearsBoxOnly ==
    (last.op = "exit_box" /\ hwp) =>
        /\ ctx = OutOfBox(last.pre)
        /\ last.res \in {"ok", "error"}
        /\ (last.res = "error") = (last.env.exit = 0)
        /\ last.res = "error" =>
              /\ last.why = "AutomationFailure"
              /\ \A i \in DOMAIN last.log : last.log[i].via = 0

\* exit_box raises inside a box, in the middle of a line whose alignment is
\* still pending
C35_Witness ==
    /\ last.op = "exit_box" /\ hwp
    /\ last.res = "error"
    /\ last.pre.in_condition_box
    /\ ~last.pre.line_start
    /\ Pending(last.pre)
    /\ ~ctx.in_condition_box

----------------------------------------------------------------------------
(* The session (Spec).                                                      *)

\* the step is a call of connect()
ConnectStep == Idle /\ last'.op = "connect"

\* C36: the session is set only by a connect() that returns, and never
\* taken away or set again: a connect() that fails leaves the controller
\* without a session, a connect() on a controller that has one returns at
\* once, before the scope in which the attach is made, and no other
\* operation changes the session.
C36_OneSession ==
    [][ /\ hwp' # hwp => (~hwp /\ ConnectStep /\ last'.res = "ok")
        /\ ConnectStep =>
              /\ hwp' = (hwp \/ last'.res = "ok")
              /\ hwp => (last'.res = "ok" /\ last'.log = <<>>) ]_vars

\* connect() was called on a controller that had a session
C36_Witness ==
    /\ last.op = "connect"
    /\ last.res = "ok"
    /\ last.log = <<>>
    /\ hwp

----------------------------------------------------------------------------
(* insert_paragraph (SpecParagraph).                                        *)

\* the texts the call in `last` had the application insert
Typed == { i \in Sent(last.log, "InsertText") : last.log[i].via # 0 }

\* C37: an insert_paragraph() that returns has broken the line and then
\* inserted one space, and no other text.
C37_BreakThenOneSpace ==
    (last.op = "insert_paragraph" /\ last.res = "ok") =>
        \E b \in Sent(last.log, "BreakPara"), t \in Typed :
           /\ last.log[b].via # 0
           /\ b < t
           /\ last.log[t].arg = << SP >>
           /\ Typed = {t}

----------------------------------------------------------------------------
(* Containers (Spec).                                                       *)

\* the commands of the call in `last` that put a container into the
\* document: a template file inserted, a table created
Containers ==
    { i \in DOMAIN last.log :
        /\ last.log[i].cmd \in {"InsertFile", "TableCreate"}
        /\ last.log[i].via # 0 }

\* C38: an insert_box() or insert_view_box() that returns has put exactly
\* one container into the document.
C38_OneContainerPerBox ==
    (last.op \in {"insert_box", "insert_view_box"} /\ last.res = "ok") =>
        Cardinality(Containers) = 1

\* both threads have called insert_text and both calls have returned
BothReturned == \A t \in Threads : th.run[t].pc = "done"

\* what the two calls leave when the second begins after the first returned:
\* the context and the commands of insert_text made twice, in this order
Serialized(order) ==
    LET first == insert_text(TRUE, th.ctx0, order[1][2], EnvUp)
        second == insert_text(TRUE, first.ctx, order[2][2], EnvUp)
    IN  [ctx |-> second.ctx, log |-> first.log \o second.log]

Swapped(order) == << order[2], order[1] >>

RightCommands == { i \in DOMAIN th.log : th.log[i].cmd = AlignCmd("right") }

\* the texts that got the leading space of the box (line 547)
Padded == th.pads

\* C39: two insert_text calls made one after the other leave the context and
\* the commands of the serial order in which they were made, with the
\* alignment command of one armed request sent at most once and the leading
\* space of the box put before at most one text; calls whose statements
\* interleave can leave a result of neither serial order (C39_Witness).
C39_SerializedCallsAgree ==
    (BothReturned /\ ~th.overlap) =>
        /\ [ctx |-> ctx, log |-> th.log] = Serialized(th.order)
        /\ Cardinality(RightCommands) <= 1
        /\ Padded <= 1

\* interleaved calls have sent the right alignment twice for one armed
\* request, which neither serial order of the two calls does
C39_Witness ==
    /\ BothReturned /\ th.overlap
    /\ Cardinality(RightCommands) = 2
    /\ [ctx |-> ctx, log |-> th.log] \notin {Serialized(th.order), Serialized(Swapped(th.order))}

\* interleaved calls have put the leading space of the box before both texts
C39_WitnessBox ==
    /\ BothReturned /\ th.overlap
    /\ Padded = 2
    /\ [ctx |-> ctx, log |-> th.log] \notin {Serialized(th.order), Serialized(Swapped(th.order))}

=============================================================================
